---------------------------- MODULE Spec2Model ----------------------------
(***************************************************************************)
(* A model of the MusicNetwork class of src/script.js (first class of the  *)
(* file, lines 2-2612): graph model, visibility index, force-directed      *)
(* layout (runLayout), viewport fitter (fitToScreen) and the interaction   *)
(* controller (mouse, touch, modal, resize).                               *)
(*                                                                         *)
(* JavaScript numbers are modelled as fixed-point integers with FP units   *)
(* per 1.0 (so the 0.001 floor of the code is exactly one unit), plus the  *)
(* three IEEE special values NaN, +Infinity and -Infinity.  Every          *)
(* arithmetic operation of the code goes through NAdd, NSub, NMul, NDiv,   *)
(* Hypot, NMin, NMax, which round toward zero and propagate the special    *)
(* values the way IEEE-754 / ECMAScript do.                                *)
(***************************************************************************)
EXTENDS Integers, Sequences, FiniteSets, TLC

(***************************************************************************)
(* Numbers                                                                 *)
(***************************************************************************)
\* units per 1.0; 1 unit = 0.001, the epsilon of `|| 0.001`
FP == 1000

NaN == 2000000000 + 3
PInf == 2000000000 + 1
NInf == 0 - PInf
\* largest finite magnitude of the model (10^6 px); the code's values come near it
\* only when a quantity is divided by the 0.001 floor, and are then multiplied by 0
Big == 1000 * 1000 * 1000
Sat(a) == IF a > Big THEN Big ELSE IF a < 0 - Big THEN 0 - Big ELSE a

IsFinite(a) == a # NaN /\ a # PInf /\ a # NInf

Abs(a) == IF a < 0 THEN 0 - a ELSE a
Sign(a) == IF a < 0 THEN 0 - 1 ELSE IF a > 0 THEN 1 ELSE 0
IMin(a, b) == IF a <= b THEN a ELSE b
IMax(a, b) == IF a >= b THEN a ELSE b

\* sign of a possibly infinite number (NaN excluded by the callers)
NSign(a) == IF a = PInf THEN 1 ELSE IF a = NInf THEN 0 - 1 ELSE Sign(a)
SignedInf(s) == IF s > 0 THEN PInf ELSE NInf

\* px(n): n whole pixels (or the whole number n) in fixed point
Px(n) == n * FP

NNeg(a) == IF a = NaN THEN NaN ELSE IF a = PInf THEN NInf ELSE IF a = NInf THEN PInf ELSE 0 - a

\* a + b
NAdd(a, b) ==
    IF a = NaN \/ b = NaN THEN NaN
    ELSE IF ~IsFinite(a) /\ ~IsFinite(b) THEN (IF a = b THEN a ELSE NaN)
    ELSE IF ~IsFinite(a) THEN a
    ELSE IF ~IsFinite(b) THEN b
    ELSE Sat(a + b)

\* a - b
NSub(a, b) == NAdd(a, NNeg(b))

\* |a| * |b| / FP on magnitudes, split so that no intermediate product overflows
MulMag(x, y) ==
    LET big == IMax(x, y)
        small == IMin(x, y)
    IN  IF small = 0 THEN 0
        ELSE IF (big \div FP) > Big \div small THEN Big
        ELSE Sat((big \div FP) * small + ((big % FP) * small) \div FP)

\* a * b
NMul(a, b) ==
    IF a = NaN \/ b = NaN THEN NaN
    ELSE IF ~IsFinite(a) \/ ~IsFinite(b)
         THEN (IF a = 0 \/ b = 0 THEN NaN ELSE SignedInf(NSign(a) * NSign(b)))
    ELSE Sign(a) * Sign(b) * MulMag(Abs(a), Abs(b))

\* |a| / |b| on magnitudes (y > 0), split so that no intermediate product overflows
DivMag(x, y) ==
    IF (x \div y) > Big \div FP THEN Big
    ELSE IF y < 2000000
    THEN Sat((x \div y) * FP + ((x % y) * FP) \div y)
    ELSE x \div (y \div FP)

\* a / b  (x/0 is +-Infinity, 0/0 is NaN; the sign of zero is not modelled)
NDiv(a, b) ==
    IF a = NaN \/ b = NaN THEN NaN
    ELSE IF ~IsFinite(a) THEN (IF ~IsFinite(b) THEN NaN
                                ELSE SignedInf(NSign(a) * (IF b < 0 THEN 0 - 1 ELSE 1)))
    ELSE IF ~IsFinite(b) THEN 0
    ELSE IF b = 0 THEN (IF a = 0 THEN NaN ELSE SignedInf(Sign(a)))
    ELSE Sign(a) * Sign(b) * DivMag(Abs(a), Abs(b))

\* Math.min / Math.max: NaN when any argument is NaN
NMin(a, b) ==
    IF a = NaN \/ b = NaN THEN NaN
    ELSE IF a = NInf \/ b = NInf THEN NInf
    ELSE IF a = PInf THEN b
    ELSE IF b = PInf THEN a
    ELSE IMin(a, b)

NMax(a, b) ==
    IF a = NaN \/ b = NaN THEN NaN
    ELSE IF a = PInf \/ b = PInf THEN PInf
    ELSE IF a = NInf THEN b
    ELSE IF b = NInf THEN a
    ELSE IMax(a, b)

\* a < b, a > b, a <= b: false when an argument is NaN
NLt(a, b) ==
    IF a = NaN \/ b = NaN THEN FALSE
    ELSE IF a = b THEN FALSE
    ELSE IF a = NInf \/ b = PInf THEN TRUE
    ELSE IF a = PInf \/ b = NInf THEN FALSE
    ELSE a < b

NGt(a, b) == NLt(b, a)
NLe(a, b) == IF a = NaN \/ b = NaN THEN FALSE ELSE a = b \/ NLt(a, b)

\* a || d : d when a is falsy (0 or NaN)
OrElse(a, d) == IF a = NaN \/ a = 0 THEN d ELSE a

\* integer square root: the largest r with r*r <= n, found bit by bit
RECURSIVE ISqrtBits(_, _, _)
ISqrtBits(n, r, b) ==
    IF b = 0 THEN r
    ELSE LET t == r + b
         IN  IF t <= n \div t THEN ISqrtBits(n, t, b \div 2)
             ELSE ISqrtBits(n, r, b \div 2)

ISqrt(n) == IF n <= 0 THEN 0 ELSE ISqrtBits(n, 0, 32768)

\* Math.sqrt(a) of a fixed-point number
NSqrt(a) ==
    IF a = NaN \/ a = NInf THEN NaN
    ELSE IF a = PInf THEN PInf
    ELSE IF a < 0 THEN NaN
    ELSE IF a < 2000000 THEN ISqrt(a * FP)
    ELSE IF a < 200000000 THEN ISqrt(a * 10) * 10
    ELSE ISqrt(a \div 10) * 100

\* the power of ten that brings magnitude m under 30000, so that squares fit
HypotScale(m) ==
    IF m <= 30000 THEN 1
    ELSE IF m <= 300000 THEN 10
    ELSE IF m <= 3000000 THEN 100
    ELSE IF m <= 30000000 THEN 1000
    ELSE IF m <= 300000000 THEN 10000
    ELSE 100000

\* Math.sqrt(a * a + b * b)
Hypot(a, b) ==
    IF a = NaN \/ b = NaN THEN NaN
    ELSE IF ~IsFinite(a) \/ ~IsFinite(b) THEN PInf
    ELSE LET s == HypotScale(IMax(Abs(a), Abs(b)))
             x == Abs(a) \div s
             y == Abs(b) \div s
         IN  Sat(s * ISqrt(x * x + y * y))

(***************************************************************************)
(* Program constants (constructor and method literals), in 1/FP units      *)
(***************************************************************************)
\* this.tuning (constructor): 0.03, 0.8, 0.5, 0.55, 40 px, 270
TuningRepulsion == 30
TuningAttraction == 800
TuningGravity == 500
TuningSameTypeRepel == 550
TuningMinDistance == 40
TuningIterations == 270
\* this.desktopLayoutMultiplier = 3, this.mobileLayoutMultiplier = 1.8
DesktopLayoutMultiplier == 3000
MobileLayoutMultiplier == 1800
\* this.initialZoomMultiplier = 2, this.desktopInitialZoomMultiplier = 1.0,
\* this.mobileDefaultCenterScale = 1.6
InitialZoomMultiplier == 2000
DesktopInitialZoomMultiplier == 1000
MobileDefaultCenterScale == 1600
\* runLayout literals: baseKMultiplier 1.15 / 0.65, mobile factors 1.8 / 0.8 / 0.5,
\* mobile minimum distance max(55, round(minDistance * 1.2))
BaseKMobile == 1150
BaseKDesktop == 650
MobileRepulsionFactor == 1800
MobileAttractionFactor == 800
MobileGravityFactor == 500
MobileMinDistFloor == 55
MobileMinDistFactor == 1200
\* attraction: typeStrength 0.9 / 0.6, person-person dampener 0.25
TypeStrengthTyped == 900
TypeStrengthDefault == 600
BothArtistsFactor == 250
\* gravity: g = gravityBase * (0.5 + centrality * 0.8)
GravityBias == 500
GravityCentralityFactor == 800
\* temperature: max(1, (1 - iter/iterations) * min(width, height) * 0.08)
TempFactor == 80
\* clamps: 10 px inside the loop (desktop), 40 px padding at the end (desktop),
\* mobile margins max(250, round(width * 0.55)) and max(140, round(height * 0.35))
LoopMargin == 10
FinalPadding == 40
MobileHorizMarginMin == 250
MobileHorizMarginFactor == 550
MobileVertMarginMin == 140
MobileVertMarginFactor == 350
\* spacing passes: 4 on desktop, 8 on mobile
SpacingPassesDesktop == 4
SpacingPassesMobile == 8
\* setupCanvas: the canvas is at least 200 px high
MinViewportAvailable == 200
\* fitToScreen: margins 80 / 100 px, scale clamp [0.6, 1.2], hard cap 8
FitMarginMobile == 80
FitMarginDesktop == 100
FitScaleMax == 1200
FitScaleMin == 600
FitScaleCap == 8000
\* interaction: cooldown 3000 ms, resize debounce 100 ms, hit slack 5 px,
\* click thresholds 6 px (mouse) and 8 px (touch)
SuppressWindow == 3000
ResizeDebounceDelay == 100
ResizeLayoutIterations == 100
HitSlack == 5
MouseClickThreshold == 6
TouchClickThreshold == 8

\* this.nodeTypes[k].radius
NodeTypeRadius(k) ==
    CASE k = "artist" -> 8
      [] k = "dj" -> 8
      [] k = "location" -> 5
      [] k = "genre" -> 6
      [] k = "collective" -> 7
      [] k = "other" -> 7

\* the keys of this.nodeTypes and of this.visibleTypes
NodeTypeKeys == {"artist", "dj", "location", "genre", "collective", "other"}

(***************************************************************************)
(* Strings: sequences of one-character strings                             *)
(***************************************************************************)
UpperLetters == <<"A", "B", "D", "T", "Z">>
LowerLetters == <<"a", "b", "d", "t", "z">>

\* String.prototype.toLowerCase, on the letters the data set uses
LowerChar(c) ==
    IF \E i \in 1..Len(UpperLetters) : UpperLetters[i] = c
    THEN LowerLetters[CHOOSE i \in 1..Len(UpperLetters) : UpperLetters[i] = c]
    ELSE c

toLowerCase(str) == [i \in 1..Len(str) |-> LowerChar(str[i])]

\* String.prototype.trim
RECURSIVE trimStart(_)
trimStart(str) == IF str # <<>> /\ Head(str) = " " THEN trimStart(Tail(str)) ELSE str
RECURSIVE trimEnd(_)
trimEnd(str) ==
    IF str # <<>> /\ str[Len(str)] = " " THEN trimEnd(SubSeq(str, 1, Len(str) - 1)) ELSE str
trim(str) == trimEnd(trimStart(str))

\* String.prototype.includes
includes(text, term) ==
    \E i \in 0..(Len(text) - Len(term)) :
        \A j \in 1..Len(term) : text[i + j] = term[j]

(***************************************************************************)
(* Graph model: createNodes, createConnections, buildIndexes               *)
(***************************************************************************)
\* the records loadData delivers (this.artists)
Artists == <<
    [artistName |-> <<"A", "b">>, type |-> <<"p", "r", "o", "d">>,
     location |-> <<"B", "z">>, genre |-> <<"T", "k">>],
    [artistName |-> <<"D", "a">>, type |-> <<"d", "j">>,
     location |-> <<"B", "z">>, genre |-> <<>>],
    [artistName |-> <<"Z", "a">>, type |-> <<"b", "o", "t", "h">>,
     location |-> <<>>, genre |-> <<"T", "k">>] >>

NoData == [none |-> TRUE]
NoNode == <<"none", 0>>

\* the role list createNodes derives from the raw type column
RoleTypes(rawType) ==
    IF rawType = <<"b", "o", "t", "h">> THEN <<"artist", "dj">>
    ELSE IF includes(rawType, <<"p", "r", "o", "d">>) THEN <<"artist">>
    ELSE IF includes(rawType, <<"d", "j">>) THEN <<"dj">>
    ELSE <<"other">>

SeqHas(seq, e) == \E i \in 1..Len(seq) : seq[i] = e

\* the primary type createNodes derives from the role list
PrimaryType(types) ==
    IF SeqHas(types, "dj") /\ ~SeqHas(types, "artist") THEN "dj"
    ELSE IF SeqHas(types, "artist") /\ ~SeqHas(types, "dj") THEN "artist"
    ELSE IF SeqHas(types, "artist") /\ SeqHas(types, "dj") THEN "both"
    ELSE "other"

\* the distinct non-empty values of a field, in first-occurrence order (a JS Set)
RECURSIVE DistinctField(_, _, _)
DistinctField(artists, field, acc) ==
    IF artists = <<>> THEN acc
    ELSE LET v == trim(Head(artists)[field])
         IN  DistinctField(Tail(artists), field,
                           IF v = <<>> \/ SeqHas(acc, v) THEN acc ELSE Append(acc, v))

ArtistNode(artists, i) ==
    LET types == RoleTypes(toLowerCase(trim(artists[i].type)))
    IN  [id |-> <<"artist", i - 1>>, type |-> PrimaryType(types), types |-> types,
         label |-> trim(artists[i].artistName), data |-> artists[i]]

GroupNode(kind, labels, i) ==
    [id |-> <<kind, i - 1>>, type |-> kind, types |-> <<>>, label |-> labels[i],
     data |-> NoData]

\* createNodes: person nodes, then location nodes, then genre nodes
createNodes(artists) ==
    LET locs == DistinctField(artists, "location", <<>>)
        gens == DistinctField(artists, "genre", <<>>)
    IN  [i \in 1..Len(artists) |-> ArtistNode(artists, i)]
        \o [i \in 1..Len(locs) |-> GroupNode("location", locs, i)]
        \o [i \in 1..Len(gens) |-> GroupNode("genre", gens, i)]

\* the connections createConnections pushes for one person node
NodeConnections(ns, node) ==
    LET locEdges == SelectSeq(ns, LAMBDA m : m.type = "location"
                                     /\ m.label = trim(node.data.location))
        genEdges == SelectSeq(ns, LAMBDA m : m.type = "genre"
                                     /\ m.label = trim(node.data.genre))
    IN  [i \in 1..Len(locEdges) |-> [from |-> node.id, to |-> locEdges[i].id, type |-> "location"]]
        \o [i \in 1..Len(genEdges) |-> [from |-> node.id, to |-> genEdges[i].id, type |-> "genre"]]

RECURSIVE createConnectionsFrom(_, _)
createConnectionsFrom(ns, rest) ==
    IF rest = <<>> THEN <<>>
    ELSE LET node == Head(rest)
         IN  (IF SeqHas(node.types, "artist") \/ SeqHas(node.types, "dj")
                    \/ SeqHas(node.types, "other")
              THEN NodeConnections(ns, node) ELSE <<>>)
             \o createConnectionsFrom(ns, Tail(rest))

createConnections(ns) == createConnectionsFrom(ns, ns)

NodeIds(ns) == {ns[i].id : i \in 1..Len(ns)}
NodeById(ns, id) == ns[CHOOSE i \in 1..Len(ns) : ns[i].id = id]

\* buildIndexes: every connection with its endpoints resolved (NoNode when the id
\* is not in nodeMap)
buildIndexes(ns, conns) ==
    [i \in 1..Len(conns) |->
        [from |-> IF conns[i].from \in NodeIds(ns) THEN conns[i].from ELSE NoNode,
         to |-> IF conns[i].to \in NodeIds(ns) THEN conns[i].to ELSE NoNode,
         type |-> conns[i].type]]

(***************************************************************************)
(* Visibility index                                                        *)
(***************************************************************************)
isPersonNode(node) ==
    /\ node.data # NoData
    /\ \/ \E i \in 1..Len(node.types) : node.types[i] \in {"artist", "dj", "other"}
       \/ node.type \in {"artist", "dj", "both", "other"}
       \/ trim(node.data.artistName) # <<>>

\* the type part of isNodeVisible: a kind missing from the map counts as enabled
KindEnabled(vt, k) == IF k \in DOMAIN vt THEN vt[k] ELSE TRUE

\* variant: every role of the node must be enabled
typeVisibleAll(node, vt) ==
    IF Len(node.types) > 0
    THEN \A i \in 1..Len(node.types) : KindEnabled(vt, node.types[i])
    ELSE KindEnabled(vt, node.type)

typeVisible(node, vt) ==
    IF Len(node.types) > 0
    THEN \E i \in 1..Len(node.types) : KindEnabled(vt, node.types[i])
    ELSE KindEnabled(vt, node.type)

NoFilter == {NoNode}

\* isNodeVisible(node) under toggle map vt, search term st and filteredNodeIds fids
\* (NoFilter stands for null)
isNodeVisible(node, vt, st, fids) ==
    IF st = <<>> THEN typeVisible(node, vt)
    ELSE IF fids = NoFilter THEN typeVisible(node, vt)
    ELSE node.id \in fids

\* shouldRenderConnection(cref)
shouldRenderConnection(ns, cref, vt, st, fids) ==
    /\ cref.from # NoNode
    /\ cref.to # NoNode
    /\ isNodeVisible(NodeById(ns, cref.from), vt, st, fids)
    /\ isNodeVisible(NodeById(ns, cref.to), vt, st, fids)

\* _nodeSearchHaystack(node): the lower-cased label and, for person nodes, every
\* non-blank string field of the record
nodeSearchHaystack(node) ==
    (IF node.label # <<>> THEN {toLowerCase(node.label)} ELSE {})
    \cup (IF isPersonNode(node)
          THEN {toLowerCase(node.data[f]) : f \in {g \in DOMAIN node.data : trim(node.data[g]) # <<>>}}
          ELSE {})

\* variant: the match set alone, without its neighbours
applySearchFilterMatches(ns, crefs, st) ==
    LET term == toLowerCase(st)
    IN  IF term = <<>> THEN NoFilter
        ELSE {ns[i].id : i \in {j \in 1..Len(ns) :
                \E text \in nodeSearchHaystack(ns[j]) : includes(text, term)}}

\* applySearchFilter: the new filteredNodeIds
applySearchFilter(ns, crefs, st) ==
    LET term == toLowerCase(st)
        matched == {ns[i].id : i \in {j \in 1..Len(ns) :
                        \E text \in nodeSearchHaystack(ns[j]) : includes(text, term)}}
    IN  IF term = <<>> THEN NoFilter
        ELSE IF matched = {} THEN {}
        ELSE matched
             \cup {crefs[i].to : i \in {j \in 1..Len(crefs) :
                        crefs[j].from # NoNode /\ crefs[j].to # NoNode
                        /\ crefs[j].from \in matched}}
             \cup {crefs[i].from : i \in {j \in 1..Len(crefs) :
                        crefs[j].from # NoNode /\ crefs[j].to # NoNode
                        /\ crefs[j].to \in matched}}

(***************************************************************************)
(* Force-directed layout: runLayout                                        *)
(***************************************************************************)
\* the model runs at most the first MaxIter iterations of a run's iteration loop
MaxIter == 2

\* Math.round
NRound(a) == IF IsFinite(a) THEN ((a + FP \div 2) \div FP) * FP ELSE a

\* variant: the exception also covers the nodes of type both
layoutNodeIdsBoth(ns, vt, st, fids) ==
    LET sel == SelectSeq(ns, LAMBDA n : isNodeVisible(n, vt, st, fids)
                                        \/ (st = <<>> /\ n.type \in {"dj", "both"}))
    IN  [i \in 1..Len(sel) |-> sel[i].id]

\* layoutNodes: the visible nodes plus, without a search term, the nodes of type dj
layoutNodeIds(ns, vt, st, fids) ==
    LET sel == SelectSeq(ns, LAMBDA n : isNodeVisible(n, vt, st, fids)
                                        \/ (st = <<>> /\ n.type = "dj"))
    IN  [i \in 1..Len(sel) |-> sel[i].id]

SeqSet(seq) == {seq[i] : i \in 1..Len(seq)}

\* the function f as an explicit table of its values
Table(f) == f @@ <<>>

\* the element of a one-element set: {e(v) : v \in {x}} computes x before e(v), as
\* a statement's value is computed before the statement after it runs
First(S) == CHOOSE r \in S : TRUE

\* the pairs (i, j), i < j, in the order of the nested loops
RECURSIVE PairsFrom(_, _, _)
PairsFrom(n, i, j) ==
    IF i >= n THEN <<>>
    ELSE IF j > n THEN PairsFrom(n, i + 1, i + 2)
    ELSE <<(<<i, j>>)>> \o PairsFrom(n, i, j + 1)

\* degree: the connections whose from / to id is a layout node
layoutDegree(conns, id) ==
    Cardinality({i \in 1..Len(conns) : conns[i].from = id})
    + Cardinality({i \in 1..Len(conns) : conns[i].to = id})

\* conns: the resolved connections with both endpoints among the layout nodes
layoutConns(crefs, ln) ==
    SelectSeq(crefs, LAMBDA cr : cr.from # NoNode /\ cr.to # NoNode
                                 /\ cr.from \in SeqSet(ln) /\ cr.to \in SeqSet(ln))

\* the quantities runLayout computes before its iteration loop
LayoutContext(ns, conns, crefs, vt, st, fids, width, height, isMobile, iterations) ==
    LET ln == layoutNodeIds(ns, vt, st, fids)
        layoutWidth == IF isMobile THEN NMul(width, MobileLayoutMultiplier)
                       ELSE NMul(width, DesktopLayoutMultiplier)
        layoutHeight == IF isMobile THEN NMul(height, MobileLayoutMultiplier)
                        ELSE NMul(height, DesktopLayoutMultiplier)
        area == NMul(layoutWidth, layoutHeight)
        k == NMul(NSqrt(NDiv(area, Px(IMax(1, Len(ln))))),
                  IF isMobile THEN BaseKMobile ELSE BaseKDesktop)
        degree == [id \in SeqSet(ln) |-> layoutDegree(conns, id)]
        degs == {degree[id] : id \in SeqSet(ln)} \cup {1}
    IN  [ln |-> ln,
         pairs |-> PairsFrom(Len(ln), 1, 2),
         conns |-> layoutConns(crefs, ln),
         typeOf |-> Table([id \in SeqSet(ln) |-> NodeById(ns, id).type]),
         degree |-> Table(degree),
         maxDegree |-> CHOOSE d \in degs : \A e \in degs : e <= d,
         isMobile |-> isMobile,
         width |-> width,
         height |-> height,
         layoutWidth |-> layoutWidth,
         layoutHeight |-> layoutHeight,
         k |-> k,
         repulsionFactor |-> IF isMobile THEN NMul(TuningRepulsion, MobileRepulsionFactor)
                             ELSE TuningRepulsion,
         attractionBase |-> IF isMobile THEN NMul(TuningAttraction, MobileAttractionFactor)
                            ELSE TuningAttraction,
         gravityBase |-> IF isMobile THEN NMul(TuningGravity, MobileGravityFactor)
                         ELSE TuningGravity,
         minDist |-> IF isMobile
                     THEN NMax(Px(MobileMinDistFloor),
                               NRound(NMul(Px(TuningMinDistance), MobileMinDistFactor)))
                     ELSE Px(TuningMinDistance),
         iterations |-> iterations]

\* sameTypeBonus of a pair of node types, sameTypeRepel being this.tuning.sameTypeRepel
sameTypeBonus(ta, tb, sameTypeRepel) ==
    IF ta = tb /\ (ta = "artist" \/ ta = "dj") THEN sameTypeRepel ELSE 0

\* the repulsion magnitude of a pair at distance dist under a given sameTypeRepel
repulseWith(c, ta, tb, dist, sameTypeRepel) ==
    NDiv(NMul(c.repulsionFactor, NMul(c.k, c.k)),
         NMul(dist, NAdd(FP, sameTypeBonus(ta, tb, sameTypeRepel))))

\* the repulsion magnitude of a pair at distance dist
repulse(c, ta, tb, dist) == repulseWith(c, ta, tb, dist, TuningSameTypeRepel)

AddForce(F, id, fx, fy) ==
    [F EXCEPT ![id] = [fx |-> NAdd(@.fx, fx), fy |-> NAdd(@.fy, fy)]]

\* the pairwise repulsion loop
RECURSIVE RepulsionLoop(_, _, _, _)
RepulsionLoop(c, pos, F, p) ==
    IF p > Len(c.pairs) THEN F
    ELSE LET a == c.ln[c.pairs[p][1]]
             b == c.ln[c.pairs[p][2]]
             dx == NSub(pos[b].x, pos[a].x)
             dy == NSub(pos[b].y, pos[a].y)
             dist == OrElse(Hypot(dx, dy), 1)
             rep == repulse(c, c.typeOf[a], c.typeOf[b], dist)
             fx == NMul(NDiv(dx, dist), rep)
             fy == NMul(NDiv(dy, dist), rep)
         IN  First({RepulsionLoop(c, pos, next, p + 1) :
                       next \in {AddForce(AddForce(F, a, NNeg(fx), NNeg(fy)), b, fx, fy)}})

\* strength of a connection between node types ta and tb
attractionStrength(c, ctype, ta, tb) ==
    LET typeStrength == IF ctype \in {"location", "genre", "collective"}
                        THEN TypeStrengthTyped ELSE TypeStrengthDefault
        bothArtists == ta \in {"artist", "dj"} /\ tb \in {"artist", "dj"}
    IN  NMul(NMul(typeStrength, IF bothArtists THEN BothArtistsFactor ELSE FP),
             c.attractionBase)

\* the edge attraction loop
RECURSIVE AttractionLoop(_, _, _, _)
AttractionLoop(c, pos, F, e) ==
    IF e > Len(c.conns) THEN F
    ELSE LET a == c.conns[e].from
             b == c.conns[e].to
             dx == NSub(pos[b].x, pos[a].x)
             dy == NSub(pos[b].y, pos[a].y)
             dist == OrElse(Hypot(dx, dy), 1)
             attraction == NMul(NDiv(NMul(dist, dist), c.k),
                                attractionStrength(c, c.conns[e].type,
                                                   c.typeOf[a], c.typeOf[b]))
             fx == NMul(NDiv(dx, dist), attraction)
             fy == NMul(NDiv(dy, dist), attraction)
         IN  First({AttractionLoop(c, pos, next, e + 1) :
                       next \in {AddForce(AddForce(F, a, fx, fy), b, NNeg(fx), NNeg(fy))}})

\* gravity toward the centre of the layout area, weighted by centrality
GravityForce(c, pos, F) ==
    Table([id \in SeqSet(c.ln) |->
        LET centrality == NDiv(Px(c.degree[id]), Px(c.maxDegree))
            g == NMul(c.gravityBase,
                      NAdd(GravityBias, NMul(centrality, GravityCentralityFactor)))
            dx == NSub(NDiv(c.layoutWidth, Px(2)), pos[id].x)
            dy == NSub(NDiv(c.layoutHeight, Px(2)), pos[id].y)
            dist == OrElse(Hypot(dx, dy), 1)
        IN  [fx |-> NAdd(F[id].fx, NMul(NMul(NDiv(dx, dist), g), dist)),
             fy |-> NAdd(F[id].fy, NMul(NMul(NDiv(dy, dist), g), dist))]])

\* the clamp at the end of an iteration
LoopClamp(c, p) ==
    IF ~c.isMobile
    THEN [x |-> NMax(Px(LoopMargin), NMin(NSub(c.layoutWidth, Px(LoopMargin)), p.x)),
          y |-> NMax(Px(LoopMargin), NMin(NSub(c.layoutHeight, Px(LoopMargin)), p.y))]
    ELSE LET horizMargin == NMax(Px(MobileHorizMarginMin),
                                 NRound(NMul(c.width, MobileHorizMarginFactor)))
             vertMargin == NMax(Px(MobileVertMarginMin),
                                NRound(NMul(c.height, MobileVertMarginFactor)))
         IN  [x |-> NMax(NNeg(horizMargin), NMin(NAdd(c.width, horizMargin), p.x)),
              y |-> NMax(NNeg(vertMargin), NMin(NAdd(c.height, vertMargin), p.y))]

\* the displacement step: the net force capped by the temperature, then the clamp
Integrate(c, pos, F, iter) ==
    LET temp == NMax(FP, NMul(NMul(NSub(FP, NDiv(Px(iter), Px(c.iterations))),
                                   NMin(c.width, c.height)), TempFactor))
    IN  Table([id \in DOMAIN pos |->
            IF id \notin SeqSet(c.ln) THEN pos[id]
            ELSE LET f == F[id]
                     fmag == OrElse(Hypot(f.fx, f.fy), 1)
                     dx == NMul(NDiv(f.fx, fmag), NMin(fmag, temp))
                     dy == NMul(NDiv(f.fy, fmag), NMin(fmag, temp))
                 IN  LoopClamp(c, [x |-> NAdd(pos[id].x, dx), y |-> NAdd(pos[id].y, dy)])])

\* one iteration of the loop
LayoutIteration(c, pos, iter) ==
    First({Integrate(c, pos, F3, iter) :
             F3 \in {GravityForce(c, pos, F2) :
                       F2 \in {AttractionLoop(c, pos, F1, 1) :
                                 F1 \in {RepulsionLoop(c, pos, zero, 1) :
                                           zero \in {Table([id \in SeqSet(c.ln) |->
                                                               [fx |-> 0, fy |-> 0]])}}}}})

RECURSIVE IterationLoop(_, _, _)
IterationLoop(c, pos, iter) ==
    IF iter >= c.iterations \/ iter >= MaxIter THEN pos
    ELSE First({IterationLoop(c, next, iter + 1) : next \in {LayoutIteration(c, pos, iter)}})

\* variant: each node of the pair moves by a quarter of the overlap
SpacingStepQuarter(c, pos, a, b) ==
    LET dx == NSub(pos[b].x, pos[a].x)
        dy == NSub(pos[b].y, pos[a].y)
        dist == OrElse(Hypot(dx, dy), 1)
        overlap == NDiv(NSub(c.minDist, dist), Px(4))
        ux == NDiv(dx, dist)
        uy == NDiv(dy, dist)
    IN  IF NLt(dist, c.minDist)
        THEN [pos EXCEPT ![a] = [x |-> NSub(@.x, NMul(ux, overlap)),
                                 y |-> NSub(@.y, NMul(uy, overlap))],
                         ![b] = [x |-> NAdd(@.x, NMul(ux, overlap)),
                                 y |-> NAdd(@.y, NMul(uy, overlap))]]
        ELSE pos

\* one pairwise correction of the spacing relaxation
SpacingStep(c, pos, a, b) ==
    LET dx == NSub(pos[b].x, pos[a].x)
        dy == NSub(pos[b].y, pos[a].y)
        dist == OrElse(Hypot(dx, dy), 1)
        overlap == NDiv(NSub(c.minDist, dist), Px(2))
        ux == NDiv(dx, dist)
        uy == NDiv(dy, dist)
    IN  IF NLt(dist, c.minDist)
        THEN [pos EXCEPT ![a] = [x |-> NSub(@.x, NMul(ux, overlap)),
                                 y |-> NSub(@.y, NMul(uy, overlap))],
                         ![b] = [x |-> NAdd(@.x, NMul(ux, overlap)),
                                 y |-> NAdd(@.y, NMul(uy, overlap))]]
        ELSE pos

RECURSIVE SpacingPass(_, _, _)
SpacingPass(c, pos, p) ==
    IF p > Len(c.pairs) THEN pos
    ELSE First({SpacingPass(c, next, p + 1) :
                  next \in {SpacingStep(c, pos, c.ln[c.pairs[p][1]], c.ln[c.pairs[p][2]])}})

RECURSIVE SpacingPasses(_, _, _)
SpacingPasses(c, pos, pass) ==
    IF pass >= (IF c.isMobile THEN SpacingPassesMobile ELSE SpacingPassesDesktop) THEN pos
    ELSE First({SpacingPasses(c, next, pass + 1) : next \in {SpacingPass(c, pos, 1)}})

\* variant: no final clamp
FinalClampNone(c, pos) == pos

\* the final clamp (desktop only)
FinalClamp(c, pos) ==
    IF c.isMobile THEN pos
    ELSE Table([id \in DOMAIN pos |->
            IF id \notin SeqSet(c.ln) THEN pos[id]
            ELSE [x |-> NMax(Px(FinalPadding),
                             NMin(NSub(c.layoutWidth, Px(FinalPadding)), pos[id].x)),
                  y |-> NMax(Px(FinalPadding),
                             NMin(NSub(c.layoutHeight, Px(FinalPadding)), pos[id].y))]])

\* Math.random(): the i-th value of the sequence it returns, for a sequence chosen
\* among 0..RandomSeeds.  Sequence 0 is constant (every call returns 0.5), sequence 1
\* climbs in small steps (values close to each other), the others spread over [0, 1)
RandomSeeds == 2
RandomDraw(seed, i) ==
    IF seed = 0 THEN FP \div 2
    ELSE IF seed = 1 THEN (FP \div 2 + i * 17) % FP
    ELSE (seed * 389 + i * 617) % FP

\* variant: the jitter is applied to every node, in the layout set or not
JitterAll(c, pos, seed, base) ==
    Table([id \in DOMAIN pos |->
        [x |-> NAdd(pos[id].x, NMul(NSub(RandomDraw(seed, base + 1), FP \div 2), Px(2))),
         y |-> NAdd(pos[id].y, NMul(NSub(RandomDraw(seed, base + 2), FP \div 2), Px(2)))]])

\* the jitter of the seeding step: (Math.random() - 0.5) * 2 on each coordinate of
\* each layout node in turn, after `base` earlier calls of Math.random()
Jitter(c, pos, seed, base) ==
    Table([id \in DOMAIN pos |->
        IF id \notin SeqSet(c.ln) THEN pos[id]
        ELSE LET i == CHOOSE j \in 1..Len(c.ln) : c.ln[j] = id
             IN  [x |-> NAdd(pos[id].x,
                             NMul(NSub(RandomDraw(seed, base + 2 * i - 1), FP \div 2), Px(2))),
                  y |-> NAdd(pos[id].y,
                             NMul(NSub(RandomDraw(seed, base + 2 * i), FP \div 2), Px(2)))]])

\* the node positions runLayout leaves, once it is past its guards
layoutPositions(c, pos, seed, base) ==
    First({FinalClamp(c, spaced) :
             spaced \in {SpacingPasses(c, relaxed, 0) :
                           relaxed \in {IterationLoop(c, seeded, 0) :
                                          seeded \in {Jitter(c, pos, seed, base)}}}})

(***************************************************************************)
(* Viewport fitter: getBounds, centerView, fitToScreen                     *)
(***************************************************************************)
RECURSIVE BoundsLoop(_, _, _, _)
BoundsLoop(ns, pos, i, b) ==
    IF i > Len(ns) THEN b
    ELSE LET p == pos[ns[i].id]
         IN  BoundsLoop(ns, pos, i + 1,
                        [minX |-> NMin(b.minX, p.x), maxX |-> NMax(b.maxX, p.x),
                         minY |-> NMin(b.minY, p.y), maxY |-> NMax(b.maxY, p.y)])

getBounds(ns, pos) ==
    IF Len(ns) = 0 THEN [minX |-> 0, maxX |-> 0, minY |-> 0, maxY |-> 0]
    ELSE LET p == pos[ns[1].id]
         IN  BoundsLoop(ns, pos, 1, [minX |-> p.x, maxX |-> p.x, minY |-> p.y, maxY |-> p.y])

\* centerView: the camera it sets (cam unchanged without nodes)
centerView(ns, pos, cam, width, height, isMobile) ==
    IF Len(ns) = 0 THEN cam
    ELSE LET b == getBounds(ns, pos)
             centerX == NDiv(NAdd(b.minX, b.maxX), Px(2))
             centerY == NDiv(NAdd(b.minY, b.maxY), Px(2))
             sc == IF isMobile THEN MobileDefaultCenterScale ELSE FP
         IN  [scale |-> sc,
              offsetX |-> NSub(NDiv(width, Px(2)), NMul(centerX, sc)),
              offsetY |-> NSub(NDiv(height, Px(2)), NMul(centerY, sc))]

\* the scale fitToScreen chooses
fitScale(b, width, height, isMobile) ==
    LET graphWidth == NSub(b.maxX, b.minX)
        graphHeight == NSub(b.maxY, b.minY)
        margin == IF isMobile THEN Px(FitMarginMobile) ELSE Px(FitMarginDesktop)
        availW == NSub(width, NMul(Px(2), margin))
        availH == NSub(height, NMul(Px(2), margin))
        finalW == IF isMobile THEN availW
                  ELSE NMax(availW, NSub(NMul(width, Px(2)), NMul(Px(2), margin)))
        finalH == IF isMobile THEN availH
                  ELSE NMax(availH, NSub(NMul(height, Px(2)), NMul(Px(2), margin)))
        fitted == IF NGt(graphWidth, 0) /\ NGt(graphHeight, 0)
                  THEN NMax(NMin(NMin(NDiv(finalW, graphWidth), NDiv(finalH, graphHeight)),
                                 FitScaleMax),
                            FitScaleMin)
                  ELSE FP
        multiplier == IF isMobile THEN InitialZoomMultiplier ELSE DesktopInitialZoomMultiplier
    IN  IF NGt(multiplier, FP) THEN NMin(NMul(fitted, multiplier), FitScaleCap) ELSE fitted

\* variant: the offsets are computed with the scale the camera had before the call
fitToScreenStale(ns, pos, cam, width, height, isMobile) ==
    IF Len(ns) = 0 THEN cam
    ELSE LET b == getBounds(ns, pos)
             centerX == NDiv(NAdd(b.minX, b.maxX), Px(2))
             centerY == NDiv(NAdd(b.minY, b.maxY), Px(2))
         IN  [scale |-> fitScale(b, width, height, isMobile),
              offsetX |-> NSub(NDiv(width, Px(2)), NMul(centerX, cam.scale)),
              offsetY |-> NSub(NDiv(height, Px(2)), NMul(centerY, cam.scale))]

\* fitToScreen: the camera it sets (cam unchanged without nodes)
fitToScreen(ns, pos, cam, width, height, isMobile) ==
    IF Len(ns) = 0 THEN cam
    ELSE LET b == getBounds(ns, pos)
             sc == fitScale(b, width, height, isMobile)
             centerX == NDiv(NAdd(b.minX, b.maxX), Px(2))
             centerY == NDiv(NAdd(b.minY, b.maxY), Px(2))
         IN  [scale |-> sc,
              offsetX |-> NSub(NDiv(width, Px(2)), NMul(centerX, sc)),
              offsetY |-> NSub(NDiv(height, Px(2)), NMul(centerY, sc))]

(***************************************************************************)
(* State                                                                   *)
(***************************************************************************)
VARIABLES
    phase,                  \* "loading": init() awaits loadData; "ready": init() returned
    nodes,                  \* this.nodes (id, type, types, label, data of every node)
    nodePos,                \* the x, y of every node
    connections,            \* this.connections
    connectionRefs,         \* this.connectionRefs
    camera,                 \* this.scale, this.offsetX, this.offsetY
    pointer,                \* isDragging, nodeDragging, draggedNode and the press records
    visibleTypes,           \* this.visibleTypes
    searchTerm,             \* this.searchTerm
    filteredNodeIds,        \* this.filteredNodeIds (NoFilter for null)
    modal,                  \* _modalOpen, _savedViewState, the body's modal-open class
    autoLayoutEnabled,      \* this._autoLayoutEnabled
    suppressRunLayoutUntil, \* this._suppressRunLayoutUntil
    resizeDebounce,         \* this._resizeDebounce: the id of the pending timer
    canvas,                 \* the canvas size setupCanvas has set
    env,                    \* the browser: clock, window class, container width
    lastRun                 \* record of the most recent runLayout call

vars == <<phase, nodes, nodePos, connections, connectionRefs, camera, pointer,
          visibleTypes, searchTerm, filteredNodeIds, modal, autoLayoutEnabled,
          suppressRunLayoutUntil, resizeDebounce, canvas, env, lastRun>>

NoTimer == 0 - 1
NoSaved == [none |-> TRUE]
NoPos == [none |-> TRUE]

\* this._pinch when no pinch is in progress
NoPinch == [none |-> TRUE]

\* the state after the constructor, before init() has done anything; of the pointer
\* record, device, touches, client, pressClient, pressedAt, travel (the farthest the
\* pointer has been from the press point, on the screen), moves and firesAtPress
\* describe the user's hand and the gesture so far, the rest are the page's fields
InitCamera == [scale |-> FP, offsetX |-> 0, offsetY |-> 0]
InitPointer ==
    [isDragging |-> FALSE, nodeDragging |-> FALSE, draggedNode |-> NoNode,
     nodeDragOffset |-> [x |-> 0, y |-> 0], dragStart |-> [x |-> 0, y |-> 0],
     startNodePos |-> NoPos, touchStartPos |-> NoPos, device |-> "none",
     client |-> [x |-> 0, y |-> 0], moves |-> 0, firesAtPress |-> 0,
     pressedAt |-> 0, pressClient |-> [x |-> 0, y |-> 0], travel |-> 0,
     touches |-> 0, pinch |-> NoPinch]
InitVisibleTypes == [k \in NodeTypeKeys |-> TRUE]
InitModal == [open |-> FALSE, saved |-> NoSaved, bodyClass |-> FALSE, kind |-> "none"]
\* the modal state showAboutModal leaves, cam being the camera at the call
AboutModal(cam) == [open |-> TRUE, saved |-> cam, bodyClass |-> TRUE, kind |-> "about"]
InitLastRun ==
    [outcome |-> "none", force |-> FALSE, modalOpen |-> FALSE, runs |-> 0,
     before |-> <<>>, after |-> <<>>, camBefore |-> InitCamera, camAfter |-> InitCamera,
     ln |-> <<>>, visible |-> {}, edges |-> {}, searchTerm |-> <<>>,
     width |-> 0, height |-> 0, mobile |-> FALSE, minDist |-> 0, degree |-> <<>>]

(***************************************************************************)
(* runLayout as a whole: guards, layout, fitToScreen                       *)
(***************************************************************************)
VisibleIds(ns, vt, st, fids) ==
    {ns[i].id : i \in {j \in 1..Len(ns) : isNodeVisible(ns[j], vt, st, fids)}}

\* the record of a runLayout call that returned at a guard
skippedRun(g, m, why, force) ==
    [m.lastRun EXCEPT !.outcome = why, !.force = force, !.modalOpen = g.modalOpen,
                      !.before = m.nodePos, !.after = m.nodePos,
                      !.camBefore = m.camera, !.camAfter = m.camera,
                      !.ln = <<>>,
                      !.visible = VisibleIds(g.nodes, g.visibleTypes, g.searchTerm,
                                             g.filteredNodeIds),
                      !.edges = {}, !.searchTerm = g.searchTerm, !.degree = <<>>,
                      !.width = g.width, !.height = g.height, !.mobile = g.mobile]

\* the record of a runLayout call that ran to its end
completedRun(g, m, c, newPos, newCam, force) ==
    [outcome |-> "ran", force |-> force, modalOpen |-> g.modalOpen,
     runs |-> m.lastRun.runs + 1,
     before |-> m.nodePos, after |-> newPos,
     camBefore |-> m.camera, camAfter |-> newCam,
     ln |-> c.ln,
     visible |-> VisibleIds(g.nodes, g.visibleTypes, g.searchTerm, g.filteredNodeIds),
     edges |-> {<<c.conns[i].from, c.conns[i].to>> : i \in 1..Len(c.conns)},
     searchTerm |-> g.searchTerm,
     width |-> g.width, height |-> g.height, mobile |-> g.mobile, minDist |-> c.minDist,
     degree |-> c.degree]

\* variant: no return on an empty layout set
layoutAndFitAlways(g, m, crefs, c, force) ==
    CHOOSE r \in
        {[nodePos |-> newPos, camera |-> newCam, connectionRefs |-> crefs,
          draws |-> m.draws + 2 * Len(c.ln),
          lastRun |-> completedRun(g, m, c, newPos, newCam, force)] :
            <<newPos, newCam>> \in
                {<<np, fitToScreen(g.nodes, np, m.camera, g.width, g.height, g.mobile)>> :
                    np \in {layoutPositions(c, m.nodePos, g.seed, m.draws)}}} : TRUE

\* runLayout past its guards, with nodes: the layout, then fitToScreen
layoutAndFit(g, m, crefs, c, force) ==
    IF Len(c.ln) = 0
    THEN [m EXCEPT !.connectionRefs = crefs, !.lastRun = skippedRun(g, m, "empty", force)]
    ELSE CHOOSE r \in
            {[nodePos |-> newPos, camera |-> newCam, connectionRefs |-> crefs,
              draws |-> m.draws + 2 * Len(c.ln),
              lastRun |-> completedRun(g, m, c, newPos, newCam, force)] :
                <<newPos, newCam>> \in
                    {<<np, fitToScreen(g.nodes, np, m.camera, g.width, g.height, g.mobile)>> :
                        np \in {layoutPositions(c, m.nodePos, g.seed, m.draws)}}} : TRUE

\* g: the state runLayout reads; m: the state it may write (nodePos, camera,
\* connectionRefs, the count of Math.random() calls, lastRun)
runLayout(g, m, iterations, force) ==
    IF ~force /\ g.modalOpen
    THEN [m EXCEPT !.lastRun = skippedRun(g, m, "modal", force)]
    ELSE IF ~force /\ ~g.autoLayoutEnabled
    THEN [m EXCEPT !.lastRun = skippedRun(g, m, "auto", force)]
    ELSE IF ~force /\ g.now < g.suppressRunLayoutUntil
    THEN [m EXCEPT !.lastRun = skippedRun(g, m, "cooldown", force)]
    ELSE IF Len(g.nodes) = 0
    THEN [m EXCEPT !.lastRun = skippedRun(g, m, "nonodes", force)]
    ELSE CHOOSE r \in
            {layoutAndFit(g, m, crefs,
                          LayoutContext(g.nodes, g.connections, crefs, g.visibleTypes,
                                        g.searchTerm, g.filteredNodeIds, g.width, g.height,
                                        g.mobile, iterations),
                          force) : crefs \in {buildIndexes(g.nodes, g.connections)}} : TRUE

\* the state runLayout reads, taken from the current state
ReadState ==
    [nodes |-> nodes, connections |-> connections, visibleTypes |-> visibleTypes,
     searchTerm |-> searchTerm, filteredNodeIds |-> filteredNodeIds,
     modalOpen |-> modal.open, autoLayoutEnabled |-> autoLayoutEnabled,
     suppressRunLayoutUntil |-> suppressRunLayoutUntil, now |-> env.now,
     width |-> canvas.width, height |-> canvas.height, mobile |-> env.mobile,
     seed |-> env.seed]

WriteState ==
    [nodePos |-> nodePos, camera |-> camera, connectionRefs |-> connectionRefs,
     draws |-> env.draws, lastRun |-> lastRun]

(***************************************************************************)
(* Inputs: window sizes, search box contents                               *)
(***************************************************************************)
\* container widths in px (0: a collapsed container)
ContainerWidths == {0, 20, 30, 120}
\* the canvas height setupCanvas computes: max(rect.height, viewportAvailable)
CanvasHeightPx == MinViewportAvailable
\* window.innerWidth <= 768 or not, and the width of the graph container
Envs == {[mobile |-> mb, width |-> Px(w)] : mb \in BOOLEAN, w \in ContainerWidths}

\* the browser when the constructor returns: clock, window class, container width,
\* the Math.random() sequence and how far it has been consumed; uiEvents, presses
\* and timerFires count the events delivered so far
\* timers: the timeouts pending in the browser, nextTimer: the id the next
\* setTimeout returns, tuningTimer: this._tuningDebounceTimer; burst records, for
\* each debounced trigger, the requests and callbacks since the first request
\* that found no timer of the trigger pending (closedRequests, lastClosedAt: the
\* requests made while no modal was open; firedIn: the phase of init() in which the
\* callback ran)
NoBurst == [requests |-> 0, closedRequests |-> 0, fires |-> 0, lastAt |-> 0,
            lastClosedAt |-> 0, firedIn |-> "none"]
InitEnv(e, seed) ==
    [now |-> 0, mobile |-> e.mobile, width |-> e.width, seed |-> seed, draws |-> 0,
     uiEvents |-> 0, presses |-> 0, timerFires |-> 0,
     timers |-> {}, nextTimer |-> 1, tuningTimer |-> NoTimer,
     burst |-> [resize |-> NoBurst, tuning |-> NoBurst]]

\* what the user may type into the search box
SearchInputs == {<<>>, <<" ">>, <<"Z", "a">>, <<"q">>}

\* the legend items switched off in the configurations the layout is run from
LegendOffSets ==
    {{}, {"dj"}, {"artist", "dj"}, {"location", "genre"},
     {"artist", "dj", "location", "genre"}}

\* createNodes: the position of the i-th node, from two calls of Math.random()
\* (desktop: 0.15 + 0.7 r of the canvas; mobile: 0.2 + 0.6 r wide, 0.1 + 0.8 r high)
InitialPos(seed, base, i, width, height, isMobile) ==
    LET rx == RandomDraw(seed, base + 2 * i - 1)
        ry == RandomDraw(seed, base + 2 * i)
    IN  IF isMobile
        THEN [x |-> NAdd(NMul(rx, NMul(width, 600)), NMul(width, 200)),
              y |-> NAdd(NMul(ry, NMul(height, 800)), NMul(height, 100))]
        ELSE [x |-> NAdd(NMul(rx, NMul(width, 700)), NMul(width, 150)),
              y |-> NAdd(NMul(ry, NMul(height, 700)), NMul(height, 150))]

InitialPositions(ns, seed, base, width, height, isMobile) ==
    Table([id \in NodeIds(ns) |->
        InitialPos(seed, base, CHOOSE j \in 1..Len(ns) : ns[j].id = id,
                   width, height, isMobile)])

(***************************************************************************)
(* init(), call by call: the specification LayoutSpec runs the synchronous *)
(* part of init() one method call at a time, from every configuration the  *)
(* user and the browser can have produced while loadData was pending       *)
(***************************************************************************)
LInit ==
    /\ phase = "loading"
    /\ nodes = <<>>
    /\ nodePos = <<>>
    /\ connections = <<>>
    /\ connectionRefs = <<>>
    /\ camera = InitCamera
    /\ pointer = InitPointer
    /\ \E off \in LegendOffSets :
          visibleTypes = [k \in NodeTypeKeys |-> k \notin off]
    /\ searchTerm \in {trim(raw) : raw \in SearchInputs}
    /\ filteredNodeIds = applySearchFilter(<<>>, <<>>, searchTerm)
    /\ modal \in {InitModal, AboutModal(InitCamera)}
    /\ autoLayoutEnabled = TRUE
    /\ suppressRunLayoutUntil = 0
    /\ resizeDebounce = NoTimer
    /\ \E e \in Envs, seed \in 0..RandomSeeds :
          /\ env = InitEnv(e, seed)
          /\ canvas = [width |-> e.width, height |-> Px(CanvasHeightPx)]
    /\ lastRun = InitLastRun

\* createNodes(); createConnections(); buildIndexes()
LCreate ==
    /\ phase = "loading"
    /\ LET ns == createNodes(Artists)
           conns == createConnections(ns)
       IN  /\ nodes' = ns
           /\ nodePos' = InitialPositions(ns, env.seed, env.draws,
                                          canvas.width, canvas.height, env.mobile)
           /\ env' = [env EXCEPT !.draws = @ + 2 * Len(ns)]
           /\ connections' = conns
           /\ connectionRefs' = buildIndexes(ns, conns)
           /\ filteredNodeIds' = applySearchFilter(ns, buildIndexes(ns, conns), searchTerm)
    /\ phase' = "created"
    /\ UNCHANGED <<camera, pointer, visibleTypes, searchTerm, modal, autoLayoutEnabled,
                   suppressRunLayoutUntil, resizeDebounce, canvas, lastRun>>

\* setupSimulation(): runLayout(this.tuning.iterations, true)
LSetupSimulation ==
    /\ phase = "created"
    /\ \E r \in {runLayout(ReadState, WriteState, TuningIterations, TRUE)} :
           /\ nodePos' = r.nodePos
           /\ camera' = r.camera
           /\ connectionRefs' = r.connectionRefs
           /\ env' = [env EXCEPT !.draws = r.draws]
           /\ lastRun' = r.lastRun
    /\ phase' = "simulated"
    /\ UNCHANGED <<nodes, connections, pointer, visibleTypes, searchTerm, filteredNodeIds,
                   modal, autoLayoutEnabled, suppressRunLayoutUntil, resizeDebounce, canvas>>

\* centerView()
LCenterView ==
    /\ phase = "simulated"
    /\ camera' = centerView(nodes, nodePos, camera, canvas.width, canvas.height, env.mobile)
    /\ phase' = "centered"
    /\ UNCHANGED <<nodes, nodePos, connections, connectionRefs, pointer, visibleTypes,
                   searchTerm, filteredNodeIds, modal, autoLayoutEnabled,
                   suppressRunLayoutUntil, resizeDebounce, canvas, env, lastRun>>

\* runLayout(this.tuning.iterations, true); this._autoLayoutEnabled = false
LRunLayout ==
    /\ phase = "centered"
    /\ \E r \in {runLayout(ReadState, WriteState, TuningIterations, TRUE)} :
           /\ nodePos' = r.nodePos
           /\ camera' = r.camera
           /\ connectionRefs' = r.connectionRefs
           /\ env' = [env EXCEPT !.draws = r.draws]
           /\ lastRun' = r.lastRun
    /\ autoLayoutEnabled' = FALSE
    /\ phase' = "ready"
    /\ UNCHANGED <<nodes, connections, pointer, visibleTypes, searchTerm, filteredNodeIds,
                   modal, suppressRunLayoutUntil, resizeDebounce, canvas>>

\* the camera after the user has panned and zoomed
MovedCameras ==
    {[scale |-> 3 * FP, offsetX |-> Px(50), offsetY |-> Px(0 - 20)],
     [scale |-> FP \div 2, offsetX |-> Px(0 - 300), offsetY |-> Px(40)]}

LCameraMoved ==
    /\ phase = "ready"
    /\ camera' \in MovedCameras
    /\ phase' = "moved"
    /\ UNCHANGED <<nodes, nodePos, connections, connectionRefs, pointer, visibleTypes,
                   searchTerm, filteredNodeIds, modal, autoLayoutEnabled,
                   suppressRunLayoutUntil, resizeDebounce, canvas, env, lastRun>>

\* fitToScreen(), called once ("fit1") and once more ("fit2")
LFitToScreen ==
    /\ phase \in {"ready", "moved", "fit1"}
    /\ camera' = fitToScreen(nodes, nodePos, camera, canvas.width, canvas.height, env.mobile)
    /\ phase' = IF phase = "fit1" THEN "fit2" ELSE "fit1"
    /\ UNCHANGED <<nodes, nodePos, connections, connectionRefs, pointer, visibleTypes,
                   searchTerm, filteredNodeIds, modal, autoLayoutEnabled,
                   suppressRunLayoutUntil, resizeDebounce, canvas, env, lastRun>>

LNext ==
    \/ LCreate
    \/ LSetupSimulation
    \/ LCenterView
    \/ LRunLayout
    \/ LCameraMoved
    \/ LFitToScreen

LayoutSpec == LInit /\ [][LNext]_vars

(***************************************************************************)
(* The running page: the specification Spec                                *)
(***************************************************************************)
\* event budgets and the clock
MaxUiEvents == 1
MaxPresses == 1
MaxMoves == 2
TickStep == 1500
MaxTime == 3000

\* the value init() leaves in _autoLayoutEnabled
AutoLayoutAfterInitKept == TRUE
AutoLayoutAfterInit == FALSE

\* the window the page is opened in
StartEnvs == {e \in Envs : e.width = Px(120)}

Init ==
    /\ phase = "loading"
    /\ nodes = <<>>
    /\ nodePos = <<>>
    /\ connections = <<>>
    /\ connectionRefs = <<>>
    /\ camera = InitCamera
    /\ pointer = InitPointer
    /\ visibleTypes = InitVisibleTypes
    /\ searchTerm = <<>>
    /\ filteredNodeIds = NoFilter
    /\ modal = InitModal
    /\ autoLayoutEnabled = TRUE
    /\ suppressRunLayoutUntil = 0
    /\ resizeDebounce = NoTimer
    /\ \E e \in StartEnvs :
          /\ env = InitEnv(e, RandomSeeds)
          /\ canvas = [width |-> e.width, height |-> Px(CanvasHeightPx)]
    /\ lastRun = InitLastRun

\* init() from the resolution of loadData to its end, one synchronous block:
\* createNodes, createConnections, buildIndexes, setupSimulation (r1), centerView,
\* runLayout (r2), _autoLayoutEnabled = false
InitSync ==
    /\ phase = "loading"
    /\ \E ns \in {createNodes(Artists)} :
       \E conns \in {createConnections(ns)} :
       \E crefs \in {buildIndexes(ns, conns)} :
       \E g \in {[ReadState EXCEPT !.nodes = ns, !.connections = conns,
                     !.filteredNodeIds = applySearchFilter(ns, crefs, searchTerm)]} :
       \E m0 \in {[WriteState EXCEPT
                     !.nodePos = InitialPositions(ns, env.seed, env.draws, canvas.width,
                                                  canvas.height, env.mobile),
                     !.connectionRefs = crefs,
                     !.draws = env.draws + 2 * Len(ns)]} :
       \E r1 \in {runLayout(g, m0, TuningIterations, TRUE)} :
       \E r2 \in {runLayout(g, [r1 EXCEPT !.camera =
                                   centerView(ns, r1.nodePos, r1.camera, canvas.width,
                                              canvas.height, env.mobile)],
                            TuningIterations, TRUE)} :
           /\ nodes' = ns
           /\ connections' = conns
           /\ filteredNodeIds' = g.filteredNodeIds
           /\ nodePos' = r2.nodePos
           /\ camera' = r2.camera
           /\ connectionRefs' = r2.connectionRefs
           /\ env' = [env EXCEPT !.draws = r2.draws]
           /\ lastRun' = r2.lastRun
    /\ autoLayoutEnabled' = AutoLayoutAfterInit
    /\ phase' = "ready"
    /\ UNCHANGED <<pointer, visibleTypes, searchTerm, modal, suppressRunLayoutUntil,
                   resizeDebounce, canvas>>

\* a click on the legend item of kind k (limit bounds the events delivered)
LegendClickWithin(k, limit) ==
    /\ ~modal.open
    /\ pointer.device = "none"
    /\ env.uiEvents < limit
    /\ visibleTypes' = [visibleTypes EXCEPT ![k] = ~@]
    /\ connectionRefs' = buildIndexes(nodes, connections)
    /\ filteredNodeIds' = applySearchFilter(nodes, buildIndexes(nodes, connections), searchTerm)
    /\ env' = [env EXCEPT !.uiEvents = @ + 1]
    /\ UNCHANGED <<phase, nodes, nodePos, connections, camera, pointer, searchTerm, modal,
                   autoLayoutEnabled, suppressRunLayoutUntil, resizeDebounce, canvas, lastRun>>

LegendClick(k) == LegendClickWithin(k, MaxUiEvents)

\* an input event of the search box, its value being raw (limit bounds the events
\* delivered)
SearchInputWithin(raw, limit) ==
    /\ ~modal.open
    /\ pointer.device = "none"
    /\ env.uiEvents < limit
    /\ searchTerm' = trim(raw)
    /\ filteredNodeIds' = applySearchFilter(nodes, connectionRefs, trim(raw))
    /\ env' = [env EXCEPT !.uiEvents = @ + 1]
    /\ UNCHANGED <<phase, nodes, nodePos, connections, connectionRefs, camera, pointer,
                   visibleTypes, modal, autoLayoutEnabled, suppressRunLayoutUntil,
                   resizeDebounce, canvas, lastRun>>

SearchInput(raw) == SearchInputWithin(raw, MaxUiEvents)

\* a click on the About button: showAboutModal
ShowAboutWithin(limit) ==
    /\ ~modal.open
    /\ pointer.device = "none"
    /\ env.uiEvents < limit
    /\ modal' = AboutModal(camera)
    /\ env' = [env EXCEPT !.uiEvents = @ + 1]
    /\ UNCHANGED <<phase, nodes, nodePos, connections, connectionRefs, camera, pointer,
                   visibleTypes, searchTerm, filteredNodeIds, autoLayoutEnabled,
                   suppressRunLayoutUntil, resizeDebounce, canvas, lastRun>>

ShowAbout == ShowAboutWithin(MaxUiEvents)

\* closeModal: the saved camera is restored
CloseModal ==
    /\ modal.open
    /\ modal' = InitModal
    /\ camera' = IF modal.saved # NoSaved THEN modal.saved ELSE camera
    /\ UNCHANGED <<phase, nodes, nodePos, connections, connectionRefs, pointer,
                   visibleTypes, searchTerm, filteredNodeIds, autoLayoutEnabled,
                   suppressRunLayoutUntil, resizeDebounce, canvas, env, lastRun>>

\* the timeouts of a trigger that are pending
PendingTimers(trigger) == {t \in env.timers : t.trigger = trigger}

\* variant: clearTimeout leaves the timeout pending
clearTimeoutKept(timers, id) == timers
\* clearTimeout(id)
clearTimeout(timers, id) == {t \in timers : t.id # id}

\* `if (field) clearTimeout(field); field = setTimeout(callback, delay)`: the
\* timeouts pending afterwards (the new timeout has the id env.nextTimer)
restartTimer(field, trigger, delay) ==
    (IF field # NoTimer THEN clearTimeout(env.timers, field) ELSE env.timers)
    \cup {[id |-> env.nextTimer, trigger |-> trigger, due |-> env.now + delay]}

\* the burst record of a trigger after one more request
BurstRequest(trigger) ==
    LET b == IF PendingTimers(trigger) = {} THEN NoBurst ELSE env.burst[trigger]
    IN  [b EXCEPT !.requests = @ + 1,
                  !.closedRequests = IF modal.open THEN @ ELSE @ + 1,
                  !.lastAt = env.now,
                  !.lastClosedAt = IF modal.open THEN @ ELSE env.now]

\* the window is resized to e: _handleResize restarts the debounce timer
ResizeRequest(e, limit) ==
    /\ env.uiEvents < limit
    /\ env' = [env EXCEPT !.mobile = e.mobile, !.width = e.width, !.uiEvents = @ + 1,
                          !.timers = restartTimer(resizeDebounce, "resize",
                                                  ResizeDebounceDelay),
                          !.nextTimer = @ + 1,
                          !.burst.resize = BurstRequest("resize")]
    /\ resizeDebounce' = env.nextTimer
    /\ UNCHANGED <<phase, nodes, nodePos, connections, connectionRefs, camera, pointer,
                   visibleTypes, searchTerm, filteredNodeIds, modal, autoLayoutEnabled,
                   suppressRunLayoutUntil, canvas, lastRun>>

WindowResize(e) == ResizeRequest(e, MaxUiEvents)

\* setupCanvas: the canvas size it leaves (unchanged while the body has modal-open)
setupCanvas(cv, bodyClass, width) ==
    IF bodyClass THEN cv ELSE [width |-> width, height |-> Px(CanvasHeightPx)]

\* the debounce timer fires: setupCanvas, then on a mobile window with automatic
\* layout enabled and no modal open, runLayout(100)
ResizeTimer ==
    \E t \in PendingTimers("resize") :
    /\ env.now >= t.due
    /\ \E cv \in {setupCanvas(canvas, modal.bodyClass, env.width)} :
       \E r \in {IF env.mobile /\ autoLayoutEnabled /\ ~modal.open
                 THEN runLayout([ReadState EXCEPT !.width = cv.width, !.height = cv.height],
                                WriteState, ResizeLayoutIterations, FALSE)
                 ELSE WriteState} :
           /\ canvas' = cv
           /\ nodePos' = r.nodePos
           /\ camera' = r.camera
           /\ connectionRefs' = r.connectionRefs
           /\ lastRun' = r.lastRun
           /\ env' = [env EXCEPT !.draws = r.draws, !.timerFires = @ + 1,
                                 !.timers = @ \ {t},
                                 !.burst.resize.fires = @ + 1,
                                 !.burst.resize.firedIn = phase]
    /\ resizeDebounce' = NoTimer
    /\ UNCHANGED <<phase, nodes, connections, pointer, visibleTypes, searchTerm,
                   filteredNodeIds, modal, autoLayoutEnabled, suppressRunLayoutUntil>>

\* the tuning panel's input handler: the delay and the iteration count it passes
\* to _scheduleTuningRun
TuningDebounceDelay == 220
TuningAutoIterations == IMin(200, IMax(40, TuningIterations \div 3))

\* _scheduleTuningRun(220, autoIters): nothing while a modal is open, else the
\* tuning debounce timer is restarted
TuningRequest(limit) ==
    /\ env.uiEvents < limit
    /\ env' = IF modal.open
              THEN [env EXCEPT !.uiEvents = @ + 1,
                               !.burst.tuning = BurstRequest("tuning")]
              ELSE [env EXCEPT !.uiEvents = @ + 1,
                               !.timers = restartTimer(env.tuningTimer, "tuning",
                                                       TuningDebounceDelay),
                               !.nextTimer = @ + 1,
                               !.tuningTimer = env.nextTimer,
                               !.burst.tuning = BurstRequest("tuning")]
    /\ UNCHANGED <<phase, nodes, nodePos, connections, connectionRefs, camera, pointer,
                   visibleTypes, searchTerm, filteredNodeIds, modal, autoLayoutEnabled,
                   suppressRunLayoutUntil, resizeDebounce, canvas, lastRun>>

\* the tuning debounce timer fires: with automatic layout enabled and no modal
\* open, runLayout(iterations); then the timer field is cleared
TuningTimer ==
    \E t \in PendingTimers("tuning") :
    /\ env.now >= t.due
    /\ \E r \in {IF autoLayoutEnabled /\ ~modal.open
                 THEN runLayout(ReadState, WriteState, TuningAutoIterations, FALSE)
                 ELSE WriteState} :
           /\ nodePos' = r.nodePos
           /\ camera' = r.camera
           /\ connectionRefs' = r.connectionRefs
           /\ lastRun' = r.lastRun
           /\ env' = [env EXCEPT !.draws = r.draws,
                                 !.timers = @ \ {t},
                                 !.tuningTimer = NoTimer,
                                 !.burst.tuning.fires = @ + 1,
                                 !.burst.tuning.firedIn = phase]
    /\ UNCHANGED <<phase, nodes, connections, pointer, visibleTypes, searchTerm,
                   filteredNodeIds, modal, autoLayoutEnabled, suppressRunLayoutUntil,
                   resizeDebounce, canvas>>

\* time passes (only while something waits for it)
Tick ==
    /\ env.now < MaxTime
    /\ env.timers # {} \/ env.now < suppressRunLayoutUntil \/ pointer.device # "none"
    /\ env' = [env EXCEPT !.now = @ + TickStep]
    /\ UNCHANGED <<phase, nodes, nodePos, connections, connectionRefs, camera, pointer,
                   visibleTypes, searchTerm, filteredNodeIds, modal, autoLayoutEnabled,
                   suppressRunLayoutUntil, resizeDebounce, canvas, lastRun>>

(***************************************************************************)
(* Pointer input: mouse and touch on the canvas                            *)
(***************************************************************************)
\* getMousePos / getTouchPos: screen point to graph coordinates (canvas at 0, 0)
getMousePos(client, cam) ==
    [x |-> NDiv(NSub(client.x, cam.offsetX), cam.scale),
     y |-> NDiv(NSub(client.y, cam.offsetY), cam.scale)]

\* the hit radius getNodeAt resolves for a node
NodeRadius(node) ==
    LET keys == IF Len(node.types) > 0 THEN Append(node.types, node.type)
                ELSE <<node.type>>
        known == {i \in 1..Len(keys) : keys[i] \in NodeTypeKeys}
    IN  IF known = {} THEN NodeTypeRadius("artist")
        ELSE NodeTypeRadius(keys[CHOOSE i \in known : \A j \in known : i <= j])

\* getNodeAt: the first visible node within radius + 5 of pos (NoNode for undefined)
getNodeAt(ns, pos, p, vt, st, fids) ==
    LET hits == {i \in 1..Len(ns) :
                    /\ isNodeVisible(ns[i], vt, st, fids)
                    /\ NLe(Hypot(NSub(pos[ns[i].id].x, p.x), NSub(pos[ns[i].id].y, p.y)),
                           Px(NodeRadius(ns[i]) + HitSlack))}
    IN  IF hits = {} THEN NoNode
        ELSE ns[CHOOSE i \in hits : \A j \in hits : i <= j].id

\* where a node is drawn on the screen, to the whole pixel
ScreenPoint(p, cam) ==
    [x |-> NRound(NAdd(NMul(p.x, cam.scale), cam.offsetX)),
     y |-> NRound(NAdd(NMul(p.y, cam.scale), cam.offsetY))]

\* the screen points the user presses: where a node is drawn, or the canvas corner
PressPoints ==
    {pt \in {ScreenPoint(nodePos[id], camera) : id \in NodeIds(nodes)} :
        IsFinite(pt.x) /\ IsFinite(pt.y)}
    \cup {[x |-> 0, y |-> 0]}

\* how far the pointer travels between two move events
MoveDeltas == {[x |-> Px(3), y |-> 0], [x |-> Px(10), y |-> Px(10)]}

\* what a press leaves in the pointer record (handleMouseDown / handleTouchStart)
PressRecord(device, pt) ==
    LET pos == getMousePos(pt, camera)
        node == getNodeAt(nodes, nodePos, pos, visibleTypes, searchTerm, filteredNodeIds)
        base == [pointer EXCEPT !.device = device, !.client = pt, !.moves = 0,
                                !.firesAtPress = env.timerFires,
                                !.pressedAt = env.now, !.pressClient = pt,
                                !.travel = 0,
                                !.touches = IF device = "touch" THEN 1 ELSE 0]
    IN  IF node # NoNode
        THEN [base EXCEPT !.nodeDragging = TRUE, !.draggedNode = node,
                          !.nodeDragOffset = [x |-> NSub(pos.x, nodePos[node].x),
                                              y |-> NSub(pos.y, nodePos[node].y)],
                          !.startNodePos = IF device = "mouse" THEN nodePos[node] ELSE @,
                          !.touchStartPos = IF device = "touch" THEN pos ELSE @]
        ELSE [base EXCEPT !.isDragging = TRUE,
                          !.dragStart = [x |-> NSub(pt.x, camera.offsetX),
                                         y |-> NSub(pt.y, camera.offsetY)]]

\* handleMouseDown at screen point pt, one of at most limit presses
MousePress(pt, limit) ==
    /\ phase = "ready"
    /\ ~modal.open
    /\ pointer.device = "none"
    /\ env.presses < limit
    /\ pointer' = PressRecord("mouse", pt)
    /\ suppressRunLayoutUntil' = env.now + SuppressWindow
    /\ env' = [env EXCEPT !.presses = @ + 1]
    /\ UNCHANGED <<phase, nodes, nodePos, connections, connectionRefs, camera, visibleTypes,
                   searchTerm, filteredNodeIds, modal, autoLayoutEnabled, resizeDebounce,
                   canvas, lastRun>>

MouseDown(pt) == MousePress(pt, MaxPresses)

\* handleTouchStart with one finger at screen point pt, one of at most limit presses
TouchPress(pt, limit) ==
    /\ phase = "ready"
    /\ ~modal.open
    /\ pointer.device = "none"
    /\ env.presses < limit
    /\ pointer' = PressRecord("touch", pt)
    /\ env' = [env EXCEPT !.presses = @ + 1]
    /\ UNCHANGED <<phase, nodes, nodePos, connections, connectionRefs, camera, visibleTypes,
                   searchTerm, filteredNodeIds, modal, autoLayoutEnabled,
                   suppressRunLayoutUntil, resizeDebounce, canvas, lastRun>>

TouchStart(pt) == TouchPress(pt, MaxPresses)

\* variant: every node is put at p
dragNodeToAll(pos, id, p) == [i \in DOMAIN pos |-> p]
\* draggedNode.x, draggedNode.y = p: the node positions with node id at p
dragNodeTo(pos, id, p) == [pos EXCEPT ![id] = p]

\* handleMouseMove / handleTouchMove with one pointer down: the dragged node follows
\* the pointer, or the camera pans
PointerMove(device, d) ==
    /\ pointer.device = device
    /\ device = "touch" => pointer.touches = 1
    /\ pointer.moves < MaxMoves
    /\ LET pt == [x |-> NAdd(pointer.client.x, d.x), y |-> NAdd(pointer.client.y, d.y)]
           pos == getMousePos(pt, camera)
       IN  /\ pointer' = [pointer EXCEPT
                              !.client = pt, !.moves = @ + 1,
                              !.travel = NMax(@, Hypot(NSub(pt.x, pointer.pressClient.x),
                                                       NSub(pt.y, pointer.pressClient.y)))]
           /\ IF pointer.nodeDragging /\ pointer.draggedNode # NoNode
              THEN /\ nodePos' = dragNodeTo(nodePos, pointer.draggedNode,
                                            [x |-> NSub(pos.x, pointer.nodeDragOffset.x),
                                             y |-> NSub(pos.y, pointer.nodeDragOffset.y)])
                   /\ camera' = camera
              ELSE IF pointer.isDragging
              THEN /\ camera' = [camera EXCEPT !.offsetX = NSub(pt.x, pointer.dragStart.x),
                                               !.offsetY = NSub(pt.y, pointer.dragStart.y)]
                   /\ nodePos' = nodePos
              ELSE UNCHANGED <<nodePos, camera>>
    /\ UNCHANGED <<phase, nodes, connections, connectionRefs, visibleTypes, searchTerm,
                   filteredNodeIds, modal, autoLayoutEnabled, suppressRunLayoutUntil,
                   resizeDebounce, canvas, env, lastRun>>

MouseMove(d) == PointerMove("mouse", d)
TouchMove(d) == PointerMove("touch", d)

\* the modal state showArtistModal / showGroupModal leave
NodeModal(kind, cam) == [open |-> TRUE, saved |-> cam, bodyClass |-> TRUE, kind |-> kind]

\* the pointer record after a release: the drag state is reset, and of the start
\* positions the one the device's press handler records
Released(device) ==
    [pointer EXCEPT !.isDragging = FALSE, !.nodeDragging = FALSE, !.draggedNode = NoNode,
                    !.startNodePos = IF device = "mouse" THEN NoPos ELSE @,
                    !.touchStartPos = IF device = "touch" THEN NoPos ELSE @,
                    !.device = "none", !.touches = 0]

\* handleMouseUp: a release that moved the node by at most 6 is a click; with a
\* dragged node left by a touch and no _mouseStartNodePos the handler throws before
\* it resets anything
MouseUp ==
    /\ pointer.device = "mouse"
    /\ IF pointer.nodeDragging /\ pointer.draggedNode # NoNode
       THEN IF pointer.startNodePos = NoPos
            THEN /\ modal' = modal
                 /\ pointer' = [pointer EXCEPT !.device = "none"]
            ELSE LET node == NodeById(nodes, pointer.draggedNode)
                     dx == NSub(nodePos[node.id].x, pointer.startNodePos.x)
                     dy == NSub(nodePos[node.id].y, pointer.startNodePos.y)
                     moved == NGt(Hypot(dx, dy), Px(MouseClickThreshold))
                 IN  /\ modal' = IF moved THEN modal
                                 ELSE IF isPersonNode(node) THEN NodeModal("artist", camera)
                                 ELSE NodeModal("group", camera)
                     /\ pointer' = Released("mouse")
       ELSE /\ modal' = modal
            /\ pointer' = Released("mouse")
    /\ UNCHANGED <<phase, nodes, nodePos, connections, connectionRefs, camera, visibleTypes,
                   searchTerm, filteredNodeIds, autoLayoutEnabled, suppressRunLayoutUntil,
                   resizeDebounce, canvas, env, lastRun>>

\* handleTouchEnd: a release at most 8 from the touch start is a tap; a pinch ends
\* when fewer than two fingers stay down
TouchEnd ==
    /\ pointer.device = "touch"
    /\ IF pointer.nodeDragging /\ pointer.draggedNode # NoNode
       THEN LET node == NodeById(nodes, pointer.draggedNode)
                pos == IF pointer.touchStartPos = NoPos THEN [x |-> 0, y |-> 0]
                       ELSE pointer.touchStartPos
                dx == NSub(NAdd(nodePos[node.id].x, pointer.nodeDragOffset.x), pos.x)
                dy == NSub(NAdd(nodePos[node.id].y, pointer.nodeDragOffset.y), pos.y)
                moved == NGt(Hypot(dx, dy), Px(TouchClickThreshold))
            IN  modal' = IF moved THEN modal
                         ELSE IF node.type = "artist" \/ node.type = "dj"
                              THEN NodeModal("artist", camera)
                         ELSE NodeModal("group", camera)
       ELSE modal' = modal
    /\ pointer' = IF pointer.touches = 2
                  THEN [Released("touch") EXCEPT !.device = "touch", !.touches = 1,
                                                 !.pinch = NoPinch]
                  ELSE [Released("touch") EXCEPT !.pinch = NoPinch]
    /\ UNCHANGED <<phase, nodes, nodePos, connections, connectionRefs, camera, visibleTypes,
                   searchTerm, filteredNodeIds, autoLayoutEnabled, suppressRunLayoutUntil,
                   resizeDebounce, canvas, env, lastRun>>

\* the mouse button is released outside the canvas: mouseup is listened for on the
\* canvas only, so no handler runs
MouseUpOutside ==
    /\ pointer.device = "mouse"
    /\ pointer' = [pointer EXCEPT !.device = "none"]
    /\ UNCHANGED <<phase, nodes, nodePos, connections, connectionRefs, camera, visibleTypes,
                   searchTerm, filteredNodeIds, modal, autoLayoutEnabled,
                   suppressRunLayoutUntil, resizeDebounce, canvas, env, lastRun>>

\* the browser cancels the touch (touchcancel): no listener is registered for it
TouchCancel ==
    /\ pointer.device = "touch"
    /\ pointer' = [pointer EXCEPT !.device = "none", !.touches = 0]
    /\ UNCHANGED <<phase, nodes, nodePos, connections, connectionRefs, camera, visibleTypes,
                   searchTerm, filteredNodeIds, modal, autoLayoutEnabled,
                   suppressRunLayoutUntil, resizeDebounce, canvas, env, lastRun>>

(***************************************************************************)
(* Zoom: wheel and pinch                                                   *)
(***************************************************************************)
\* the limits of the camera scale and the wheel's zoom factors
MinScale == 100
MaxScale == 3000
ZoomOutFactor == 900
ZoomInFactor == 1100

\* Math.max(0.1, Math.min(3, s))
clampScale(s) == NMax(MinScale, NMin(MaxScale, s))

\* the camera with scale newScale and the graph point under screen point pt kept
\* where it is
zoomAt(cam, pt, newScale) ==
    LET mx == NDiv(NSub(pt.x, cam.offsetX), cam.scale)
        my == NDiv(NSub(pt.y, cam.offsetY), cam.scale)
    IN  [scale |-> newScale,
         offsetX |-> NSub(pt.x, NMul(mx, newScale)),
         offsetY |-> NSub(pt.y, NMul(my, newScale))]

\* where the fingers of a two-finger gesture are put down and moved to
PinchPoints == {[x |-> 0, y |-> 0], [x |-> Px(30), y |-> Px(40)]}

\* the wheel and pinch-start events of one behaviour
MaxZooms == 1

\* handleWheel with the cursor at pt; deltaY > 0 zooms out
handleWheel(cam, pt, deltaYPositive) ==
    zoomAt(cam, pt,
           clampScale(NMul(cam.scale, IF deltaYPositive THEN ZoomOutFactor ELSE ZoomInFactor)))

Wheel(pt, deltaYPositive) ==
    /\ phase = "ready"
    /\ ~modal.open
    /\ env.uiEvents < MaxZooms
    /\ camera' = handleWheel(camera, pt, deltaYPositive)
    /\ env' = [env EXCEPT !.uiEvents = @ + 1]
    /\ UNCHANGED <<phase, nodes, nodePos, connections, connectionRefs, pointer,
                   visibleTypes, searchTerm, filteredNodeIds, modal, autoLayoutEnabled,
                   suppressRunLayoutUntil, resizeDebounce, canvas, lastRun>>

\* getTouchDistance
getTouchDistance(t1, t2) == Hypot(NSub(t2.x, t1.x), NSub(t2.y, t1.y))

\* the midpoint of two touches
TouchMid(t1, t2) ==
    [x |-> NDiv(NAdd(t1.x, t2.x), Px(2)), y |-> NDiv(NAdd(t1.y, t2.y), Px(2))]

\* handleTouchStart with two fingers down, at t1 and t2: both put down together, or
\* the second one (t2) joining a finger that is down at t1; the drag flags stay
PinchStart(t1, t2) ==
    /\ phase = "ready"
    /\ ~modal.open
    /\ env.uiEvents < MaxZooms
    /\ \/ pointer.device = "none"
       \/ pointer.device = "touch" /\ pointer.touches = 1 /\ pointer.client = t1
    /\ pointer' = [pointer EXCEPT !.device = "touch", !.touches = 2, !.client = t1,
                                  !.moves = 0,
                                  !.pinch = [startDist |-> getTouchDistance(t1, t2),
                                             startScale |-> camera.scale]]
    /\ env' = [env EXCEPT !.uiEvents = @ + 1]
    /\ UNCHANGED <<phase, nodes, nodePos, connections, connectionRefs, camera, visibleTypes,
                   searchTerm, filteredNodeIds, modal, autoLayoutEnabled,
                   suppressRunLayoutUntil, resizeDebounce, canvas, lastRun>>

\* the pinch branch of handleTouchMove, the two fingers now at t1 and t2
pinchZoom(cam, pinch, t1, t2) ==
    LET scaleDelta == NDiv(getTouchDistance(t1, t2), pinch.startDist)
    IN  zoomAt(cam, TouchMid(t1, t2), clampScale(NMul(pinch.startScale, scaleDelta)))

\* handleTouchMove with two fingers down and a pinch in progress
PinchMove(t1, t2) ==
    /\ pointer.device = "touch"
    /\ pointer.touches = 2
    /\ pointer.pinch # NoPinch
    /\ pointer.moves < MaxMoves
    /\ camera' = pinchZoom(camera, pointer.pinch, t1, t2)
    /\ pointer' = [pointer EXCEPT !.client = t1, !.moves = @ + 1]
    /\ UNCHANGED <<phase, nodes, nodePos, connections, connectionRefs, visibleTypes,
                   searchTerm, filteredNodeIds, modal, autoLayoutEnabled,
                   suppressRunLayoutUntil, resizeDebounce, canvas, env, lastRun>>

\* the legend items of the page
LegendKinds == {"artist", "dj", "location", "genre"}

Next ==
    \/ InitSync
    \/ \E k \in LegendKinds : LegendClick(k)
    \/ \E raw \in SearchInputs : SearchInput(raw)
    \/ ShowAbout
    \/ CloseModal
    \/ \E e \in Envs : WindowResize(e)
    \/ ResizeTimer
    \/ Tick
    \/ \E pt \in PressPoints : MouseDown(pt)
    \/ \E d \in MoveDeltas : MouseMove(d)
    \/ MouseUp
    \/ \E pt \in PressPoints : TouchStart(pt)
    \/ \E d \in MoveDeltas : TouchMove(d)
    \/ TouchEnd

Spec == Init /\ [][Next]_vars

(***************************************************************************)
(* Gestures on the loaded graph: the specification GestureSpec             *)
(***************************************************************************)
\* pointer moves: a small step, a long one and the way back
GestureDeltas == MoveDeltas \cup {[x |-> 0 - Px(10), y |-> 0 - Px(10)]}

\* where the first finger of a two-finger gesture is: put down with the second, or
\* down already
FirstTouches == PinchPoints \cup {pt \in {pointer.client} : pointer.device = "touch"}

GestureNext ==
    \/ InitSync
    \/ \E pt \in PressPoints : MouseDown(pt)
    \/ \E d \in GestureDeltas : MouseMove(d)
    \/ MouseUp
    \/ \E pt \in PressPoints : TouchStart(pt)
    \/ \E d \in GestureDeltas : TouchMove(d)
    \/ TouchEnd
    \/ \E pt \in PinchPoints, out \in BOOLEAN : Wheel(pt, out)
    \/ \E t1 \in FirstTouches, t2 \in PinchPoints : PinchStart(t1, t2)
    \/ \E t1, t2 \in PinchPoints : PinchMove(t1, t2)
    \/ CloseModal

GestureSpec == Init /\ [][GestureNext]_vars

(***************************************************************************)
(* Presses and lost releases: the specification PressSpec                  *)
(***************************************************************************)
\* the presses of one behaviour
MaxGesturePresses == 2

PressNext ==
    \/ InitSync
    \/ \E pt \in PressPoints : MousePress(pt, MaxGesturePresses)
    \/ MouseUp
    \/ MouseUpOutside
    \/ \E pt \in PressPoints : TouchPress(pt, MaxGesturePresses)
    \/ TouchEnd
    \/ TouchCancel
    \/ CloseModal

PressSpec == Init /\ [][PressNext]_vars

(***************************************************************************)
(* The debounced triggers: the specification DebounceSpec                  *)
(***************************************************************************)
\* the requests and modal clicks of one behaviour
MaxRequests == 3

DebounceNext ==
    \/ InitSync
    \/ ShowAboutWithin(MaxRequests)
    \/ CloseModal
    \/ \E e \in StartEnvs : ResizeRequest(e, MaxRequests)
    \/ TuningRequest(MaxRequests)
    \/ ResizeTimer
    \/ TuningTimer
    \/ Tick

DebounceSpec == Init /\ [][DebounceNext]_vars

(***************************************************************************)
(* Searching and filtering: the specification SearchSpec delivers several  *)
(* search inputs and legend clicks, before and after the data has arrived  *)
(***************************************************************************)
MaxSearchEvents == 3

SearchNext ==
    \/ InitSync
    \/ \E k \in LegendKinds : LegendClickWithin(k, MaxSearchEvents)
    \/ \E raw \in SearchInputs : SearchInputWithin(raw, MaxSearchEvents)

SearchSpec == Init /\ [][SearchNext]_vars

(***************************************************************************)
(* Properties                                                              *)
(***************************************************************************)
\* the visible node set of the current state
Visible == VisibleIds(nodes, visibleTypes, searchTerm, filteredNodeIds)

\* the last runLayout call ran to its end
Ran == lastRun.outcome = "ran"

\* C1: between the press that starts a node drag and the matching release no layout
\* run executes: while nodeDragging is set, no step completes a layout run, for
\* mouse and touch drags, whatever time passes and whatever resize timers fire
C1_NoLayoutDuringDrag ==
    [][pointer.nodeDragging => lastRun'.runs = lastRun.runs]_vars

\* a node drag on a mobile window during which a resize timer has fired, with any
\* cooldown already over
C1_Witness ==
    /\ pointer.nodeDragging
    /\ env.mobile
    /\ env.timerFires > pointer.firesAtPress
    /\ env.now >= suppressRunLayoutUntil

\* C2: a layout run called while a modal is open changes no node position and
\* not the camera, whichever caller invokes it
C2_NoLayoutWhileModal ==
    (lastRun.outcome # "none" /\ lastRun.modalOpen)
        => (lastRun.after = lastRun.before /\ lastRun.camAfter = lastRun.camBefore)

\* the match set of the search term and its one-hop neighbourhood
MatchSet ==
    {nodes[i].id : i \in {j \in 1..Len(nodes) :
        \E text \in nodeSearchHaystack(nodes[j]) : includes(text, toLowerCase(searchTerm))}}
Adjacent(a, b) ==
    \E i \in 1..Len(connectionRefs) :
        /\ connectionRefs[i].from # NoNode
        /\ connectionRefs[i].to # NoNode
        /\ {connectionRefs[i].from, connectionRefs[i].to} = {a, b}
SearchVisible ==
    IF MatchSet = {} THEN {}
    ELSE MatchSet \cup {id \in NodeIds(nodes) : \E mm \in MatchSet : Adjacent(id, mm)}

\* C3: with a non-empty search term the visible set is the match set plus the nodes
\* one resolved edge away from a match, under every setting of the type toggles,
\* and is empty when nothing matches
C3_SearchVisibleSet ==
    searchTerm # <<>> =>
        \A off \in SUBSET LegendKinds :
            VisibleIds(nodes, [k \in NodeTypeKeys |-> k \notin off], searchTerm,
                       filteredNodeIds) = SearchVisible

\* a search with a match, a visible neighbour whose kind is switched off, and a
\* node two hops from the match that is not visible
C3_Witness ==
    /\ searchTerm # <<>>
    /\ MatchSet # {}
    /\ \E id \in Visible \ MatchSet : ~typeVisible(NodeById(nodes, id), visibleTypes)
    /\ \E id \in NodeIds(nodes) \ Visible : \E v \in Visible : Adjacent(id, v)

\* the role kinds of a node
RoleKinds(node) == IF Len(node.types) > 0 THEN SeqSet(node.types) ELSE {node.type}

\* C4: with no search term a node is visible iff one of its role kinds is enabled
\* in the toggle map, a kind absent from the map counting as enabled
C4_ToggleVisibility ==
    searchTerm = <<>> =>
        \A i \in 1..Len(nodes) :
            (nodes[i].id \in Visible)
                <=> (\E k \in RoleKinds(nodes[i]) :
                        k \notin DOMAIN visibleTypes \/ visibleTypes[k])

\* no search term, a place toggle off with its place nodes hidden, and a node with
\* two roles visible while one of its roles is off
C4_Witness ==
    /\ searchTerm = <<>>
    /\ \E i \in 1..Len(nodes) :
          /\ Len(nodes[i].types) = 2
          /\ nodes[i].id \in Visible
          /\ \E k \in RoleKinds(nodes[i]) : ~visibleTypes[k]
    /\ \E i \in 1..Len(nodes) : nodes[i].type = "dj" /\ nodes[i].id \notin Visible

\* the resolved edges, and those with both endpoints in a set of nodes
ResolvedEdges ==
    {<<connectionRefs[i].from, connectionRefs[i].to>> :
        i \in {j \in 1..Len(connectionRefs) :
                  connectionRefs[j].from # NoNode /\ connectionRefs[j].to # NoNode}}
EdgesWithin(S) == {e \in ResolvedEdges : e[1] \in S /\ e[2] \in S}

\* every edge is rendered iff both of its endpoints are visible
RenderedIffVisible ==
    \A i \in 1..Len(connectionRefs) :
        shouldRenderConnection(nodes, connectionRefs[i], visibleTypes, searchTerm,
                               filteredNodeIds)
            <=> (connectionRefs[i].from \in Visible /\ connectionRefs[i].to \in Visible)

\* the nodes a run lays out: the visible nodes of the run and, when the run had no
\* search term, the nodes of type dj
LayoutSet ==
    lastRun.visible
    \cup (IF lastRun.searchTerm = <<>>
          THEN {nodes[i].id : i \in {j \in 1..Len(nodes) : nodes[j].type = "dj"}}
          ELSE {})

\* C5 as claimed: an edge is rendered, and is used for attraction by a layout run,
\* iff both of its endpoints are visible
C5_EdgesOfVisibleNodes ==
    /\ RenderedIffVisible
    /\ Ran => lastRun.edges = EdgesWithin(lastRun.visible)

\* C5, amended: an edge is rendered iff both of its endpoints are visible; a layout
\* run uses it for attraction iff both endpoints are layout nodes, that is visible
\* or, when no search term is set, of type dj
C5_EdgesOfLayoutNodes ==
    /\ RenderedIffVisible
    /\ Ran => lastRun.edges = EdgesWithin(LayoutSet)

\* a run that attracted along an edge with a hidden endpoint
C5_Witness ==
    /\ Ran
    /\ \E e \in lastRun.edges : e[1] \notin lastRun.visible \/ e[2] \notin lastRun.visible
    /\ \E e \in ResolvedEdges : e \notin lastRun.edges

\* C6 as claimed: a layout run called with an empty visible set changes no node
\* position and not the camera
C6_NoOpWhenNothingVisible ==
    (lastRun.outcome # "none" /\ lastRun.visible = {})
        => (lastRun.after = lastRun.before /\ lastRun.camAfter = lastRun.camBefore)

\* C6, amended: a layout run called with an empty layout set (nothing visible and,
\* when no search term is set, no node of type dj) returns at the empty-set guard,
\* changing no node position and not the camera
C6_NoOpWhenLayoutSetEmpty ==
    (lastRun.outcome # "none" /\ LayoutSet = {})
        => /\ lastRun.outcome = "empty"
           /\ lastRun.after = lastRun.before
           /\ lastRun.camAfter = lastRun.camBefore

\* a run on existing nodes that found its layout set empty
C6_Witness ==
    /\ lastRun.outcome = "empty"
    /\ LayoutSet = {}
    /\ nodes # <<>>
    /\ camera # InitCamera

\* the distance of two nodes after / before the last run
DistAfter(a, b) ==
    Hypot(NSub(lastRun.after[b].x, lastRun.after[a].x),
          NSub(lastRun.after[b].y, lastRun.after[a].y))
DistBefore(a, b) ==
    Hypot(NSub(lastRun.before[b].x, lastRun.before[a].x),
          NSub(lastRun.before[b].y, lastRun.before[a].y))
FinitePos(p) == IsFinite(p.x) /\ IsFinite(p.y)

SpacingSlack == 5

RunLayoutWidth == NMul(lastRun.width, DesktopLayoutMultiplier)
RunLayoutHeight == NMul(lastRun.height, DesktopLayoutMultiplier)
InPaddedBox(p) ==
    /\ NLe(Px(FinalPadding), p.x)
    /\ NLe(p.x, NSub(RunLayoutWidth, Px(FinalPadding)))
    /\ NLe(Px(FinalPadding), p.y)
    /\ NLe(p.y, NSub(RunLayoutHeight, Px(FinalPadding)))

\* C8 as claimed: after a run on desktop every visible node lies in
\* [40, layoutWidth - 40] x [40, layoutHeight - 40], whatever the canvas size
C8_InsidePadding ==
    (Ran /\ ~lastRun.mobile) => \A id \in lastRun.visible : InPaddedBox(lastRun.after[id])

\* C8, amended: after a run on desktop with a layout area at least 80 px wide and
\* 80 px high, every visible node lies in [40, layoutWidth - 40] x [40, layoutHeight - 40]
C8_InsidePaddingWhenRoom ==
    (Ran /\ ~lastRun.mobile /\ RunLayoutWidth >= Px(2 * FinalPadding)
         /\ RunLayoutHeight >= Px(2 * FinalPadding))
        => \A id \in lastRun.visible : InPaddedBox(lastRun.after[id])

\* a desktop run with room for the padding that left a visible node on the edge of
\* the padded box
C8_Witness ==
    /\ Ran
    /\ ~lastRun.mobile
    /\ RunLayoutWidth >= Px(2 * FinalPadding)
    /\ \E id \in lastRun.visible :
          \/ lastRun.after[id].x = Px(FinalPadding)
          \/ lastRun.after[id].x = NSub(RunLayoutWidth, Px(FinalPadding))
          \/ lastRun.after[id].y = Px(FinalPadding)

\* C9: after a completed run every node coordinate is a finite number
C9_FiniteCoordinates ==
    Ran => \A id \in DOMAIN lastRun.after : FinitePos(lastRun.after[id])

\* C10: a second call of fitToScreen, the node positions and the canvas unchanged,
\* leaves the scale and the offsets the first call set
C10_FitIdempotent ==
    [][(phase = "fit1" /\ phase' = "fit2") => camera' = camera]_vars

\* fitToScreen has been called twice, the first time on a camera the user had moved
C10_Witness ==
    /\ phase = "fit2"
    /\ nodes # <<>>
    /\ camera \notin MovedCameras
    /\ camera # InitCamera

\* C11: the controller is in exactly one of Idle, PanDragging and NodeDragging:
\* isDragging and nodeDragging are never both true, whatever presses and releases
\* the mouse and the touch screen deliver, lost releases included
C11_OneDragState == ~(pointer.isDragging /\ pointer.nodeDragging)

\* a step that ends a press on a node, and one that opens a detail view
NodeReleaseStep == pointer.nodeDragging /\ ~pointer'.nodeDragging
OpensDetail == ~modal.open /\ modal'.open

\* the click / tap threshold of the device that is down, in px
ClickThreshold == IF pointer.device = "mouse" THEN MouseClickThreshold ELSE TouchClickThreshold

\* C12: a release that ends a press on a node opens the detail view when the
\* pointer has stayed less than the threshold (6 px mouse, 8 px touch) from the
\* press point, and opens nothing when the pointer has been farther than the
\* threshold from it at any point of the gesture
C12_ClickIffWithinThreshold ==
    [][NodeReleaseStep =>
          /\ NLt(pointer.travel, Px(ClickThreshold)) => OpensDetail
          /\ NGt(pointer.travel, Px(ClickThreshold)) => ~OpensDetail]_vars

\* C13: a click or tap that opens a detail view opens the person view for a
\* person-like node and the group view for any other node, for mouse and touch alike
C13_ViewByNodeKind ==
    [][(NodeReleaseStep /\ OpensDetail) =>
          modal'.kind = IF isPersonNode(NodeById(nodes, pointer.draggedNode))
                        THEN "artist" ELSE "group"]_vars

\* the delay of a debounced trigger
DebounceDelay(trigger) ==
    IF trigger = "resize" THEN ResizeDebounceDelay ELSE TuningDebounceDelay

\* a burst of n > 0 requests, the last at time last, is either waiting for its one
\* callback, due one delay after the last request, or has had exactly one callback
BurstCoalesced(trigger, n, last) ==
    n > 0 =>
        \/ /\ env.burst[trigger].fires = 0
           /\ \E t \in PendingTimers(trigger) :
                 PendingTimers(trigger) = {t} /\ t.due = last + DebounceDelay(trigger)
        \/ /\ env.burst[trigger].fires = 1
           /\ PendingTimers(trigger) = {}

\* C14 as claimed: for the tuning and the resize trigger at most one timer is
\* pending, and a burst of requests leads to exactly one callback, one delay after
\* the last request
C14_DebounceEveryRequest ==
    \A trigger \in {"resize", "tuning"} :
        /\ Cardinality(PendingTimers(trigger)) <= 1
        /\ BurstCoalesced(trigger, env.burst[trigger].requests, env.burst[trigger].lastAt)

\* C14, amended: at most one timer per trigger is pending; a burst of resize
\* requests, and a burst of tuning requests made while no modal is open, leads to
\* exactly one callback, one delay after the last of these requests; a tuning
\* request made while a modal is open is dropped and starts or restarts no timer
C14_DebounceUnlessModal ==
    /\ \A trigger \in {"resize", "tuning"} : Cardinality(PendingTimers(trigger)) <= 1
    /\ BurstCoalesced("resize", env.burst.resize.requests, env.burst.resize.lastAt)
    /\ BurstCoalesced("tuning", env.burst.tuning.closedRequests,
                      env.burst.tuning.lastClosedAt)
    /\ (env.burst.tuning.requests > 0 /\ env.burst.tuning.closedRequests = 0)
           => (PendingTimers("tuning") = {} /\ env.burst.tuning.fires = 0)

\* a burst of at least two requests of one trigger, made at different times, that
\* has had its callback
C14_Witness ==
    \E trigger \in {"resize", "tuning"} :
        /\ env.burst[trigger].closedRequests >= 2
        /\ env.burst[trigger].lastClosedAt > 0
        /\ env.burst[trigger].fires = 1
        /\ PendingTimers(trigger) = {}

\* a step in which the resize debounce callback runs
ResizeCallbackStep == env'.timerFires = env.timerFires + 1

\* C15 as claimed: when the resize debounce callback runs on a mobile-width window
\* with no modal open, no cooldown active and a graph loaded, a layout run
\* executes; on a desktop window the callback runs no layout
C15_MobileResizeRunsLayout ==
    [][ResizeCallbackStep =>
          IF env.mobile
          THEN (~modal.open /\ env.now >= suppressRunLayoutUntil /\ Len(nodes) > 0)
                   => (lastRun'.runs = lastRun.runs + 1 /\ lastRun'.outcome = "ran")
          ELSE lastRun'.runs = lastRun.runs]_vars

\* C15, amended: the resize debounce callback never executes a layout run, on a
\* mobile-width or a desktop window: node positions and camera are left as they
\* were; once init() has disabled automatic layout, and on a desktop window, the
\* callback does not call runLayout
C15_ResizeRunsNoLayout ==
    [][ResizeCallbackStep =>
          /\ lastRun'.runs = lastRun.runs
          /\ nodePos' = nodePos
          /\ camera' = camera
          /\ (phase = "ready" \/ ~env.mobile) => lastRun' = lastRun]_vars

\* the resize callback has run on a mobile-width window with the graph loaded, no
\* modal open and no cooldown active
C15_Witness ==
    /\ phase = "ready"
    /\ Len(nodes) > 0
    /\ env.mobile
    /\ ~modal.open
    /\ env.now >= suppressRunLayoutUntil
    /\ env.burst.resize.fires = 1
    /\ env.burst.resize.firedIn = "ready"
    /\ PendingTimers("resize") = {}

\* a step that handles a wheel event or a two-finger move event
ZoomStep ==
    \/ env'.uiEvents = env.uiEvents + 1 /\ pointer' = pointer
    \/ pointer.touches = 2 /\ pointer'.moves = pointer.moves + 1

\* C16: after any wheel or pinch move event the camera scale lies in [0.1, 3.0],
\* for every previous scale and every pair of touch points
C16_ScaleClamped ==
    [][ZoomStep => (NLe(MinScale, camera'.scale) /\ NLe(camera'.scale, MaxScale))]_vars

\* C17: in every reachable state the camera scale is a number strictly greater
\* than zero
C17_ScalePositive == IsFinite(camera.scale) /\ camera.scale > 0

\* the centre of the bounding box of all nodes, hidden ones included, is drawn at
\* the centre of a canvas w wide and h high
BoundsCentred(cam, pos, w, h) ==
    LET b == getBounds(nodes, pos)
        cx == NDiv(NAdd(b.minX, b.maxX), Px(2))
        cy == NDiv(NAdd(b.minY, b.maxY), Px(2))
    IN  /\ NAdd(cam.offsetX, NMul(cx, cam.scale)) = NDiv(w, Px(2))
        /\ NAdd(cam.offsetY, NMul(cy, cam.scale)) = NDiv(h, Px(2))

\* a step that completes a layout run, and one that is a standalone fitToScreen
LayoutRunStep == lastRun'.runs = lastRun.runs + 1
FitStep == phase' \in {"fit1", "fit2"}

\* C18: immediately after every layout run that was not skipped, and after any
\* standalone fitToScreen, offsetX + cx * scale = canvasWidth / 2 and
\* offsetY + cy * scale = canvasHeight / 2, (cx, cy) being the centre of the
\* bounding box of all nodes
C18_CentredAfterFit ==
    [][(LayoutRunStep \/ FitStep) =>
          BoundsCentred(camera', nodePos', canvas'.width, canvas'.height)]_vars

\* C19: while a press that hit a node is held, mouse or touch, the suppression
\* deadline is the press time plus 3000 ms
C19_PressStartsCooldown ==
    (pointer.nodeDragging /\ pointer.device # "none")
        => suppressRunLayoutUntil = pointer.pressedAt + SuppressWindow

\* a step that handles a move event with a pointer down
MoveStep == pointer'.moves = pointer.moves + 1

\* what a move event in NodeDragging and in PanDragging may change
MoveKeepsTheRest ==
    /\ pointer.nodeDragging =>
          /\ camera' = camera
          /\ \A id \in NodeIds(nodes) \ {pointer.draggedNode} : nodePos'[id] = nodePos[id]
    /\ (pointer.isDragging /\ ~pointer.nodeDragging) =>
          /\ camera'.scale = camera.scale
          /\ nodePos' = nodePos
    /\ lastRun' = lastRun

\* C20 as claimed: a move event in NodeDragging changes only the dragged node's
\* position, a move event in PanDragging changes only offsetX and offsetY, and
\* neither starts a layout run
C20_MoveChangesOnlyTarget == [][MoveStep => MoveKeepsTheRest]_vars

\* C20, amended: a move event of the mouse or of a single finger in NodeDragging
\* changes only the dragged node's position, and in PanDragging only offsetX and
\* offsetY; a two-finger move event during a pinch changes the camera's scale and
\* offsets whatever the drag state, and no node position; no move starts a layout run
C20_OnePointerMoveChangesOnlyTarget ==
    [][MoveStep =>
          IF pointer.touches = 2
          THEN nodePos' = nodePos /\ lastRun' = lastRun
          ELSE MoveKeepsTheRest]_vars

\* a node has been dragged away from where it was pressed, with one finger, while
\* the other nodes stayed where the last layout run left them
C20_Witness ==
    /\ pointer.nodeDragging
    /\ pointer.device = "touch"
    /\ pointer.touches = 1
    /\ pointer.moves = 2
    /\ nodePos[pointer.draggedNode] # lastRun.after[pointer.draggedNode]
    /\ \A id \in NodeIds(nodes) \ {pointer.draggedNode} : nodePos[id] = lastRun.after[id]

\* the edges incident to node id whose two endpoints are resolved and visible
VisibleDegree(id) ==
    Cardinality({i \in 1..Len(connectionRefs) :
                    /\ connectionRefs[i].from # NoNode
                    /\ connectionRefs[i].to # NoNode
                    /\ connectionRefs[i].from \in lastRun.visible
                    /\ connectionRefs[i].to \in lastRun.visible
                    /\ id \in {connectionRefs[i].from, connectionRefs[i].to}})

\* C21: the degree a layout run uses for a node's centrality is the number of edges
\* incident to the node whose both endpoints are in the visible subgraph: edges to
\* hidden nodes and edges with an unresolved endpoint are not counted
C21_DegreeOfVisibleSubgraph ==
    Ran => \A id \in SeqSet(lastRun.ln) : lastRun.degree[id] = VisibleDegree(id)

\* the nodes that hold the dj role, alone or with another role
DjRoleIds == {nodes[i].id : i \in {j \in 1..Len(nodes) : SeqHas(nodes[j].types, "dj")}}

\* C22: in a layout run with no search term every node that holds the dj role is
\* in the layout node set, even with its type toggles off; in a layout run with a
\* search term the layout node set is exactly the visible set
C22_DjRoleInLayoutSet ==
    Ran => IF lastRun.searchTerm = <<>>
           THEN DjRoleIds \subseteq SeqSet(lastRun.ln)
           ELSE SeqSet(lastRun.ln) = lastRun.visible

\* the quantities the most recent layout run computed before its iteration loop
LastRunContext ==
    LayoutContext(nodes, connections, connectionRefs, visibleTypes, lastRun.searchTerm,
                  filteredNodeIds, lastRun.width, lastRun.height, lastRun.mobile,
                  TuningIterations)

\* the primary types of a pair of nodes and the distances between them, in px
PairTypes == {"artist", "dj", "both", "other", "location", "genre", "collective"}
PairDistances == {1, 40, 300}

\* C23: for two nodes that share a person role (both artist or both dj), at any
\* distance, the repulsion magnitude computed with sameTypeRepel > 0 is strictly
\* larger than the one computed with sameTypeRepel = 0; any other pair gets no bonus
C23_SameTypeRepelsMore ==
    Ran => \A ta \in PairTypes, tb \in PairTypes, d \in PairDistances :
              IF ta = tb /\ ta \in {"artist", "dj"}
              THEN NGt(repulseWith(LastRunContext, ta, tb, Px(d), TuningSameTypeRepel),
                       repulseWith(LastRunContext, ta, tb, Px(d), 0))
              ELSE repulseWith(LastRunContext, ta, tb, Px(d), TuningSameTypeRepel)
                   = repulseWith(LastRunContext, ta, tb, Px(d), 0)

\* a step in which the callback of the tuning debounce timer runs
TuningCallbackStep == env'.burst.tuning.fires # env.burst.tuning.fires

\* C24: once init() has returned, the callback of the tuning debounce timer and the
\* callback of the resize handler change no node position and leave the camera as
\* it is: their runLayout call is not forced and automatic layout is disabled
C24_TimersKeepLayoutAfterInit ==
    [][(phase = "ready" /\ (ResizeCallbackStep \/ TuningCallbackStep))
          => (nodePos' = nodePos /\ camera' = camera)]_vars

\* both callbacks have run after init() returned, on a phone-sized window with the
\* graph loaded and no modal open
C24_Witness ==
    /\ phase = "ready"
    /\ env.mobile
    /\ ~modal.open
    /\ nodes # <<>>
    /\ env.burst.resize.firedIn = "ready"
    /\ env.burst.tuning.firedIn = "ready"

(***************************************************************************)
(* The layout as a function of this.connections: EdgeSpec starts where     *)
(* createNodes() has run and this.connections holds, after the edges       *)
(* createConnections() derives, edges naming an id no node has; it then    *)
(* runs the rest of init() call by call                                    *)
(***************************************************************************)
\* an id that no node carries
MissingNode == <<"location", 9>>

\* edges with one or both endpoints unresolved
DanglingEdges ==
    {<<[from |-> <<"artist", 0>>, to |-> MissingNode, type |-> "location"]>>,
     <<[from |-> MissingNode, to |-> <<"genre", 0>>, type |-> "genre"]>>,
     <<[from |-> MissingNode, to |-> MissingNode, type |-> "collective"]>>}

EInit ==
    /\ phase = "created"
    /\ nodes = createNodes(Artists)
    /\ \E extra \in DanglingEdges : connections = createConnections(nodes) \o extra
    /\ connectionRefs = buildIndexes(nodes, connections)
    /\ camera = InitCamera
    /\ pointer = InitPointer
    /\ \E off \in LegendOffSets :
          visibleTypes = [k \in NodeTypeKeys |-> k \notin off]
    /\ searchTerm \in {trim(raw) : raw \in SearchInputs}
    /\ filteredNodeIds = applySearchFilter(nodes, connectionRefs, searchTerm)
    /\ modal \in {InitModal, AboutModal(InitCamera)}
    /\ autoLayoutEnabled = TRUE
    /\ suppressRunLayoutUntil = 0
    /\ resizeDebounce = NoTimer
    /\ \E e \in Envs, seed \in 0..RandomSeeds :
          /\ env = [InitEnv(e, seed) EXCEPT !.draws = 2 * Len(nodes)]
          /\ canvas = [width |-> e.width, height |-> Px(CanvasHeightPx)]
          /\ nodePos = InitialPositions(nodes, seed, 0, e.width, Px(CanvasHeightPx),
                                        e.mobile)
    /\ lastRun = InitLastRun

ENext ==
    \/ LSetupSimulation
    \/ LCenterView
    \/ LRunLayout
    \/ LCameraMoved
    \/ LFitToScreen

EdgeSpec == EInit /\ [][ENext]_vars

\* this.connections without the edges that have an unresolved endpoint
ResolvedConnections ==
    SelectSeq(connections, LAMBDA c : c.from \in NodeIds(nodes) /\ c.to \in NodeIds(nodes))

\* the layout run of the current state, had this.connections held only the
\* resolved edges
RunOnResolved ==
    runLayout([ReadState EXCEPT !.connections = ResolvedConnections],
              [WriteState EXCEPT !.connectionRefs = buildIndexes(nodes, ResolvedConnections)],
              TuningIterations, TRUE)

C26_CameraKeptWhileModal ==
    [][modal.open => camera' = camera]_vars

\* a step in which a finger is lifted while two fingers are down
PinchReleaseStep == pointer.touches = 2 /\ pointer'.touches < 2

\* C27: a touch gesture in which a second finger lands before the first is lifted
\* never opens a detail view: lifting a finger of the pinch opens nothing, wherever
\* the first finger landed
C27_PinchOpensNoDetail ==
    [][PinchReleaseStep => ~OpensDetail]_vars

(***************************************************************************)
(* The list view                                                           *)
(***************************************************************************)
\* the sections of the list view, in order
ListTypeOrder == <<"artist", "dj", "other", "location", "genre", "collective">>

\* the rank of a character in the collation of localeCompare, on the letters the
\* data set uses (any other character sorts before them)
CharRank(c) ==
    IF \E i \in 1..Len(LowerLetters) : LowerLetters[i] = c
    THEN CHOOSE i \in 1..Len(LowerLetters) : LowerLetters[i] = c
    ELSE 0

\* a.localeCompare(b) < 0 on lower-cased labels
RECURSIVE labelBefore(_, _)
labelBefore(a, b) ==
    IF b = <<>> THEN FALSE
    ELSE IF a = <<>> THEN TRUE
    ELSE IF CharRank(Head(a)) # CharRank(Head(b)) THEN CharRank(Head(a)) < CharRank(Head(b))
    ELSE labelBefore(Tail(a), Tail(b))

\* group.sort(by lower-cased label): a stable insertion sort
RECURSIVE insertByLabel(_, _)
insertByLabel(sorted, node) ==
    IF sorted = <<>> THEN <<node>>
    ELSE IF labelBefore(toLowerCase(node.label), toLowerCase(Head(sorted).label))
    THEN <<node>> \o sorted
    ELSE <<Head(sorted)>> \o insertByLabel(Tail(sorted), node)

RECURSIVE sortByLabel(_)
sortByLabel(group) ==
    IF group = <<>> THEN <<>>
    ELSE insertByLabel(sortByLabel(SubSeq(group, 1, Len(group) - 1)), group[Len(group)])

\* the group of one section: the visible nodes whose primary type is the section's
listGroup(ns, vt, st, fids, type) ==
    sortByLabel(SelectSeq(ns, LAMBDA node : node.type = type
                                           /\ isNodeVisible(node, vt, st, fids)))

\* renderListView: the ids of the listed nodes, section by section (a section with
\* an empty group is left out), and whether the empty-state message is shown
RECURSIVE listItems(_, _, _, _, _)
listItems(ns, vt, st, fids, order) ==
    IF order = <<>> THEN <<>>
    ELSE LET group == listGroup(ns, vt, st, fids, Head(order))
         IN  [i \in 1..Len(group) |-> group[i].id]
             \o listItems(ns, vt, st, fids, Tail(order))

renderListView(ns, vt, st, fids) ==
    LET items == listItems(ns, vt, st, fids, ListTypeOrder)
    IN  [items |-> items, emptyShown |-> Len(items) = 0]

\* what renderListView renders from the current state
ListView == renderListView(nodes, visibleTypes, searchTerm, filteredNodeIds)

\* C28: the list view lists every visible node exactly once, whatever its roles,
\* and shows its empty-state message only when no node is visible
C28_ListShowsVisibleNodes ==
    /\ \A id \in Visible :
          Cardinality({i \in 1..Len(ListView.items) : ListView.items[i] = id}) = 1
    /\ ListView.emptyShown => Visible = {}

\* C29: in every state filteredNodeIds is null exactly when the search term is
\* empty, and otherwise is the match set of the current search term plus its one-hop
\* neighbourhood over the current graph: it is never stale after search inputs,
\* legend clicks and index rebuilds
C29_FilterFollowsSearchTerm ==
    /\ (filteredNodeIds = NoFilter) <=> (searchTerm = <<>>)
    /\ searchTerm # <<>> => filteredNodeIds = SearchVisible

\* the graph is loaded, a legend item is switched off, and the search term matches
\* a node that has a neighbour
C29_Witness ==
    /\ phase = "ready"
    /\ searchTerm # <<>>
    /\ MatchSet # {}
    /\ MatchSet # SearchVisible
    /\ filteredNodeIds = SearchVisible
    /\ \E k \in LegendKinds : ~visibleTypes[k]

\* C30: a layout run changes the position only of the nodes in its layout node
\* set: every node outside the set has the same position after the run as before
C30_RunMovesOnlyLayoutNodes ==
    [][LayoutRunStep =>
          \A id \in NodeIds(nodes) \ SeqSet(lastRun'.ln) : nodePos'[id] = nodePos[id]]_vars

\* a run has moved a node of its layout set while another node was outside the set
C30_Witness ==
    /\ Ran
    /\ NodeIds(nodes) \ SeqSet(lastRun.ln) # {}
    /\ \E id \in SeqSet(lastRun.ln) : lastRun.after[id] # lastRun.before[id]
    /\ \A id \in NodeIds(nodes) \ SeqSet(lastRun.ln) : nodePos[id] = lastRun.before[id]

=============================================================================
